---- MODULE Spec2Model ----
(***************************************************************************)
(* Model of the geocoding pipeline of the Yerevan housing index:           *)
(* main.py (carry-forward, reset, stage order), geocode.py (override map,  *)
(* district bounding-box cache, tiered resolver, batch resolver) and       *)
(* spread.py (grouping and re-tagging of stacked listings).                *)
(*                                                                         *)
(* Coordinates are integers in units of 1e-5 degree, relative to the       *)
(* point (40.15 N, 44.48 E).  A Python value that may be None is a         *)
(* sequence of length at most one: <<>> is None, <<v>> is the value v.     *)
(* Strings that the code only tests for truthiness use "" for None.        *)
(***************************************************************************)
EXTENDS Integers, Sequences, FiniteSets, TLC

None == <<>>
Some(v) == <<v>>

\* upper bound on the number of pipeline runs (main() executions)
MaxRuns == 2
\* upper bound on the number of manual edits of the override file
MaxEdits == 1

(***************************************************************************)
(* geocode.py constants                                                    *)
(***************************************************************************)
\* BBOX_BUFFER = 0.003 degree
BBOX_BUFFER == 300

DISTRICT_ALIASES(d) ==
    CASE d = "Center" -> "Kentron"
      [] d = "Nor Norq" -> "Nor-Nork"
      [] d = "Nor-Norq" -> "Nor-Nork"
      [] d = "Norq Marash" -> "Nork-Marash"
      [] d = "Achapnyak" -> "Ajapnyak"
      [] d = "Vahagni district" -> "Vahagni"
      [] OTHER -> d

\* str.strip() on the district strings of the model
Strip(s) == CASE s = " Kentron " -> "Kentron" [] s = " " -> "" [] OTHER -> s

\* str(listing["id"]) for the ids of the model
Str(n) ==
    CASE n = 1 -> "1" [] n = 2 -> "2" [] n = 3 -> "3" [] n = 4 -> "4"
      [] n = 633 -> "633" [] n = 3128 -> "3128" [] n = 5626 -> "5626"
      [] OTHER -> "?"

(***************************************************************************)
(* Street labels are sequences of whitespace-separated tokens.             *)
(***************************************************************************)
\* tokens that form a parenthetical aside "( ... )"
ParenTokens == {"(near park)"}
\* tokens whose lower-case form contains the substring "district"
DistrictTokens == {"district", "District", "microdistrict"}

RECURSIVE DropParens(_)
DropParens(s) ==
    IF s = <<>> THEN <<>>
    ELSE IF Head(s) \in ParenTokens THEN DropParens(Tail(s))
    ELSE <<Head(s)>> \o DropParens(Tail(s))

\* STREET_ALIASES.get(s.lower()): None when the table has no entry
STREET_ALIASES(lowered) ==
    CASE lowered = <<"g", "1", "dis.">> -> Some(<<"G1", "microdistrict">>)
      [] lowered = <<"vahakni", "district">> -> Some(<<"Vahagni", "district">>)
      [] lowered = <<"ashtarak", "hightway">> -> Some(<<"Ashtarak", "highway">>)
      [] OTHER -> None

\* str.lower() on the tokens of the model
Lower(t) ==
    CASE t = "Tolstoy" -> "tolstoy" [] t = "Street" -> "street"
      [] t = "Vahagni" -> "vahagni" [] t = "District" -> "district"
      [] t = "Abovyan" -> "abovyan" [] t = "Unknown" -> "unknown"
      [] t = "Lane" -> "lane" [] t = "St." -> "st."
      [] OTHER -> t

\* _normalize_street: drop "( ... )", drop a trailing " district", alias table
NormalizeStreet(raw) ==
    LET a == DropParens(raw)
        b == IF Len(a) >= 2 /\ Lower(a[Len(a)]) = "district"
             THEN SubSeq(a, 1, Len(a) - 1) ELSE a
        aliased == STREET_ALIASES([i \in 1..Len(b) |-> Lower(b[i])])
    IN IF aliased # None THEN aliased[1] ELSE b

\* _is_area_like: "district" in street.lower()
IsAreaLike(street) == \E i \in 1..Len(street) : street[i] \in DistrictTokens

(***************************************************************************)
(* The world outside the program                                           *)
(***************************************************************************)
\* boxes <<south, north, west, east>> the geocoding service knows
ServiceBBox(osm) ==
    CASE osm = "Kentron" -> <<1000, 4000, 1000, 4000>>
      [] osm = "Arabkir" -> <<5000, 8000, 1000, 4000>>
      [] OTHER -> None

PIn == <<2500, 2500>>
PCorner == <<4300, 4300>>
PFar == <<6000, 2500>>
\* coordinates a geocoding query can answer with
Points == {PIn, PCorner, PFar}
\* geocode_address results: None or a (lat, lon) pair
Resp == {None} \cup Points
\* coordinates a human may type into the override file
OverridePoints == {<<2600, 2600>>}

\* what the three sites list: id, source, street label, district label,
\* house number ("" = None) and coordinates embedded by the source (or None)
Prof(id, source, street, district, number, srcPos) ==
    [id |-> id, source |-> source, street |-> street, district |-> district,
     number |-> number, srcPos |-> srcPos]

Tolstoy == <<"Tolstoy", "Street">>
VahagniD == <<"Vahagni", "district">>

Scenarios ==
    { << Prof(1, "besthouse", Tolstoy, "Kentron", "12", None),
         Prof(2, "kentron", Tolstoy, "Center", "", None),
         Prof(3, "listam", Tolstoy, "Kentron", "", Some(<<2400, 2400>>)) >>,
      << Prof(1, "besthouse", VahagniD, "Kentron", "", None),
         Prof(2, "kentron", VahagniD, "Kentron", "", None),
         Prof(3, "kentron", <<"(near park)">>, "", "", Some(<<2400, 2400>>)) >>,
      << Prof(1, "besthouse", <<>>, "Arabkir", "", None),
         Prof(2, "listam", <<>>, "Arabkir", "", None),
         Prof(3, "besthouse", <<"(near park)">>, "", "", None) >> }

VARIABLES
    site,          \* the listings the sites show (one of Scenarios)
    listings,      \* main's list of listing dicts: lat, lng, geocode_precision
    saved,         \* data/listings.json: <<>> or the list persisted by the last run
    overridesFile, \* data/geocode_overrides.json
    overrides,     \* run_geocoder's in-memory copy of the override map
    bboxMem,       \* _DISTRICT_BBOX_MEM_CACHE: [loaded, map]
    bboxDisk,      \* data/district_bbox.json
    geomCache,     \* data/raw/overpass_<slug>.json: slug -> [readable, ways]
    pc,            \* stage of main / run_geocoder / geocode_listing
    toGeocode,     \* run_geocoder's to_geocode (indices into listings)
    cur,           \* position of the listing being geocoded in toGeocode
    vbox,          \* geocode_listing's vbox
    failed,        \* run_geocoder's failed list
    log,           \* geocoding queries issued for the current listing
    before,        \* the listings as they entered the current stage
    runs,          \* completed pipeline runs
    edits,         \* manual edits of the override file so far
    call,          \* the last direct call of a function: arguments and result
    hist           \* what earlier direct calls returned

vars == <<site, listings, saved, overridesFile, overrides, bboxMem, bboxDisk,
          geomCache, pc, toGeocode, cur, vbox, failed, log, before, runs, edits,
          call, hist>>

Idx == DOMAIN listings

Rec(lat, lng, prec) == [lat |-> lat, lng |-> lng, prec |-> prec]

\* the record a scraper returns for a listing (parse_detail_page)
Scraped(p) ==
    IF p.source = "besthouse" THEN Rec(None, None, "")
    ELSE IF p.source = "kentron" THEN
        IF p.srcPos # None THEN Rec(Some(p.srcPos[1][1]), Some(p.srcPos[1][2]), "source_map")
        ELSE Rec(None, None, "failed")
    ELSE
        IF p.srcPos # None THEN Rec(Some(p.srcPos[1][1]), Some(p.srcPos[1][2]), "source_approx")
        ELSE Rec(None, None, "failed")

EmptyMap == [k \in {} |-> None]

Init ==
    /\ site \in Scenarios
    /\ listings = [i \in DOMAIN site |-> Rec(None, None, "")]
    /\ saved = <<>>
    /\ overridesFile = EmptyMap
    /\ overrides = EmptyMap
    /\ bboxMem = [loaded |-> FALSE, map |-> EmptyMap]
    /\ bboxDisk = EmptyMap
    /\ geomCache = EmptyMap
    /\ pc = "idle"
    /\ toGeocode = <<>>
    /\ cur = 0
    /\ vbox = None
    /\ failed = <<>>
    /\ log = <<>>
    /\ before = listings
    /\ runs = 0
    /\ edits = 0
    /\ call = None
    /\ hist = <<>>

Put(m, k, v) == [x \in (DOMAIN m) \cup {k} |-> IF x = k THEN v ELSE m[x]]

(***************************************************************************)
(* main.py: start of a run, carry-forward                                  *)
(***************************************************************************)
\* prev_by_id[item["id"]] = item, in file order: the last item with the id wins
PrevById(s, id) ==
    LET hits == {j \in 1..Len(s) : s[j].id = id}
    IN IF hits = {} THEN None
       ELSE Some(s[CHOOSE j \in hits : \A k \in hits : k <= j])

\* main: load data/listings.json, run the three scrapers, concatenate
StartRun ==
    /\ pc = "idle"
    /\ runs < MaxRuns
    /\ listings' = [i \in DOMAIN site |-> Scraped(site[i])]
    /\ bboxMem' = [loaded |-> FALSE, map |-> EmptyMap]
    /\ pc' = "carry"
    /\ before' = listings'
    /\ log' = <<>>
    /\ UNCHANGED <<call, hist, site, saved, overridesFile, overrides, bboxDisk, geomCache,
                   toGeocode, cur, vbox, failed, runs, edits>>

\* main: the geo fields of the carry-forward loop, for one listing
CarryOne(l, id) ==
    LET pv == PrevById(saved, id) IN
    IF pv = None THEN l
    ELSE LET prev == pv[1] IN
         [lat |-> IF l.lat = None /\ prev.lat # None THEN prev.lat ELSE l.lat,
          lng |-> IF l.lng = None /\ prev.lng # None THEN prev.lng ELSE l.lng,
          prec |-> IF l.prec = "" /\ prev.prec # "" THEN prev.prec ELSE l.prec]

CarryForward ==
    /\ pc = "carry"
    /\ listings' = [i \in Idx |-> CarryOne(listings[i], site[i].id)]
    /\ before' = listings'
    /\ pc' = "reset"
    /\ UNCHANGED <<call, hist, site, saved, overridesFile, overrides, bboxMem, bboxDisk, geomCache,
                   toGeocode, cur, vbox, failed, log, runs, edits>>

(***************************************************************************)
(* geocode.py: district bounding-box cache                                 *)
(***************************************************************************)
\* _load_district_bbox_cache: entries that are not 4-element lists are skipped
LoadDistrictBboxCache(disk) ==
    [k \in {d \in DOMAIN disk : Len(disk[d]) = 4} |-> disk[k]]

\* _fetch_district_bbox: one geocoding-service call; ok = the call succeeded
FetchDistrictBbox(osm, ok) == IF ok THEN ServiceBBox(osm) ELSE None

\* get_district_bbox: result, the caches afterwards, and the service calls made
GetDistrictBbox(osmRaw, mem, disk, ok) ==
    LET osm == Strip(osmRaw) IN
    IF osm = "" THEN [bbox |-> None, mem |-> mem, disk |-> disk, net |-> 0]
    ELSE LET m1 == IF mem.loaded THEN mem
                   ELSE [loaded |-> TRUE, map |-> LoadDistrictBboxCache(disk)]
         IN IF osm \in DOMAIN m1.map
            THEN [bbox |-> m1.map[osm], mem |-> m1, disk |-> disk, net |-> 0]
            ELSE LET bbox == FetchDistrictBbox(osm, ok) IN
                 IF bbox = None
                 THEN [bbox |-> None, mem |-> m1, disk |-> disk, net |-> 1]
                 ELSE LET m2 == [m1 EXCEPT !.map = Put(m1.map, osm, bbox)]
                      IN [bbox |-> bbox, mem |-> m2, disk |-> m2.map, net |-> 1]

\* _expand_bbox
ExpandBbox(bbox, buffer) ==
    <<bbox[1] - buffer, bbox[2] + buffer, bbox[3] - buffer, bbox[4] + buffer>>

\* the comparison with the boundary left out
InsideBoxStrict(lat, lng, box) ==
    /\ box[1] < lat /\ lat < box[2]
    /\ box[3] < lng /\ lng < box[4]

\* the comparison of in_district_bbox on a known box
InsideBox(lat, lng, box) ==
    /\ box[1] <= lat /\ lat <= box[2]
    /\ box[3] <= lng /\ lng <= box[4]

\* in_district_bbox: v is "true", "false" or "none" (Python None)
InDistrictBbox(lat, lng, district, mem, disk, ok) ==
    IF lat = None \/ lng = None
    THEN [v |-> "none", mem |-> mem, disk |-> disk, net |-> 0]
    ELSE LET osm == Strip(DISTRICT_ALIASES(district)) IN
         IF osm = "" THEN [v |-> "none", mem |-> mem, disk |-> disk, net |-> 0]
         ELSE LET g == GetDistrictBbox(osm, mem, disk, ok) IN
              IF g.bbox = None
              THEN [v |-> "none", mem |-> g.mem, disk |-> g.disk, net |-> g.net]
              ELSE [v |-> IF InsideBox(lat[1], lng[1], ExpandBbox(g.bbox, BBOX_BUFFER))
                          THEN "true" ELSE "false",
                    mem |-> g.mem, disk |-> g.disk, net |-> g.net]

(***************************************************************************)
(* main.py: _reset_bad_geocodes_for_regen                                  *)
(***************************************************************************)
Protected == {"source_map", "source_approx", "override", "address"}

\* the loop body for one listing; ok = the bounding-box lookup it may make succeeds
ResetOne(l, district, mem, disk, ok) ==
    IF l.prec \in Protected
    THEN [l |-> l, mem |-> mem, disk |-> disk]
    ELSE IF l.prec \in {"district", "district_jitter"}
    THEN [l |-> Rec(None, None, ""), mem |-> mem, disk |-> disk]
    ELSE IF l.lat = None \/ l.lng = None \/ district = ""
    THEN [l |-> l, mem |-> mem, disk |-> disk]
    ELSE LET c == InDistrictBbox(l.lat, l.lng, district, mem, disk, ok) IN
         [l |-> IF c.v = "false" THEN Rec(None, None, "") ELSE l,
          mem |-> c.mem, disk |-> c.disk]

\* the loop over listings i..n, threading the cache
RECURSIVE ResetFrom(_, _, _, _, _)
ResetFrom(i, ls, mem, disk, oks) ==
    IF i > Len(ls) THEN [ls |-> ls, mem |-> mem, disk |-> disk]
    ELSE LET r == ResetOne(ls[i], site[i].district, mem, disk, oks[i])
         IN ResetFrom(i + 1, [ls EXCEPT ![i] = r.l], r.mem, r.disk, oks)

ResetBadGeocodes ==
    /\ pc = "reset"
    /\ \E oks \in [Idx -> BOOLEAN] :
          LET r == ResetFrom(1, listings, bboxMem, bboxDisk, oks) IN
          /\ listings' = r.ls
          /\ bboxMem' = r.mem
          /\ bboxDisk' = r.disk
    /\ before' = listings
    /\ pc' = "geocode"
    /\ UNCHANGED <<call, hist, site, saved, overridesFile, overrides, geomCache,
                   toGeocode, cur, vbox, failed, log, runs, edits>>

(***************************************************************************)
(* geocode.py: the tiered resolver                                         *)
(***************************************************************************)
\* the free-text query of a tier: "{number} {street}, {district}, Yerevan, Armenia";
\* district = None where the tier leaves the district qualifier out
Query(number, street, district) ==
    [number |-> number, street |-> street, district |-> district]

\* one call of geocode_address as it appears in the log of the current listing
Entry(tier, q, bounded, res, v) ==
    [tier |-> tier, q |-> q, bounded |-> bounded, res |-> res, v |-> v]
\* a tier that takes whatever the service answered
AcceptsAll(v) == TRUE

\* the acceptance test of _try_geocode: "ok is not False"
Accepts(v) == v # "false"

\* _try_geocode(query, district, viewbox); r1, r2 are the service's answers to
\* the first and to the bounded query, f1, f2 whether the bounding-box lookups
\* made while checking them succeed
TryGeocode(tier, q, district, viewbox, mem, disk, r1, f1, r2, f2) ==
    IF r1 = None
    THEN [result |-> None, mem |-> mem, disk |-> disk,
          entries |-> <<Entry(tier, q, FALSE, r1, "unchecked")>>]
    ELSE
    LET ok == InDistrictBbox(Some(r1[1]), Some(r1[2]), district, mem, disk, f1)
        e1 == Entry(tier, q, FALSE, r1, ok.v)
    IN
    IF Accepts(ok.v)
    THEN [result |-> r1, mem |-> ok.mem, disk |-> ok.disk, entries |-> <<e1>>]
    ELSE IF viewbox = None
    THEN [result |-> None, mem |-> ok.mem, disk |-> ok.disk, entries |-> <<e1>>]
    ELSE IF r2 = None
    THEN [result |-> None, mem |-> ok.mem, disk |-> ok.disk,
          entries |-> <<e1, Entry(tier, q, TRUE, r2, "unchecked")>>]
    ELSE
    LET ok2 == InDistrictBbox(Some(r2[1]), Some(r2[2]), district, ok.mem, ok.disk, f2)
        e2 == Entry(tier, q, TRUE, r2, ok2.v)
    IN [result |-> IF Accepts(ok2.v) THEN r2 ELSE None,
        mem |-> ok2.mem, disk |-> ok2.disk, entries |-> <<e1, e2>>]

\* the listing geocode_listing is working on
CurIdx == toGeocode[cur]
CurSite == site[CurIdx]
OsmDistrict == DISTRICT_ALIASES(CurSite.district)
Street == NormalizeStreet(CurSite.street)

\* the tier's precondition and query (geocode_listing, tiers 1 to 3)
TierApplies(t) ==
    IF t = 1 THEN CurSite.number # "" /\ Street # <<>> ELSE Street # <<>>

TierQuery(t) ==
    IF t = 1 THEN Query(CurSite.number, Street, Some(OsmDistrict))
    ELSE IF t = 2 THEN Query("", Street, Some(OsmDistrict))
    ELSE IF t = 3 THEN Query("", Street, None)
    ELSE Query("", <<>>, Some(OsmDistrict))

TierPrecision(t) ==
    IF t = 1 THEN "address" ELSE IF t \in {2, 3} THEN "street" ELSE "district"
\* a resolver that goes from the full address straight to street-only
NextTierSkip(t) == IF t = 1 THEN 3 ELSE t + 1

\* the tier geocode_listing falls through to when tier t gave nothing
NextTier(t) == t + 1

TierPc(t) == IF t = 1 THEN "t1" ELSE IF t = 2 THEN "t2" ELSE IF t = 3 THEN "t3" ELSE "t4"

\* run_geocoder's loop body after geocode_listing returned l for the current
\* listing: "if listing.get('lat')" else failed.append; then the next listing
Returned(l) ==
    /\ listings' = [listings EXCEPT ![CurIdx] = l]
    /\ failed' = IF l.lat = None THEN Append(failed, CurIdx) ELSE failed
    /\ cur' = cur + 1
    /\ pc' = IF cur = Len(toGeocode) THEN "geo_end" ELSE "gl_begin"

\* geocode_listing up to the first tier: source_approx shortcut, override,
\* district box lookup for the viewbox
GLBegin ==
    /\ pc = "gl_begin"
    /\ log' = <<>>
    /\ LET l == listings[CurIdx]
           lid == Str(CurSite.id)
       IN
       IF l.prec = "source_approx" /\ l.lat # None /\ l.lng # None
       THEN /\ Returned(l)
            /\ UNCHANGED <<bboxMem, bboxDisk, vbox>>
       ELSE IF lid \in DOMAIN overrides
       THEN /\ Returned(Rec(overrides[lid].lat, overrides[lid].lng, "override"))
            /\ UNCHANGED <<bboxMem, bboxDisk, vbox>>
       ELSE /\ \E ok \in BOOLEAN :
                 LET g == IF OsmDistrict # ""
                          THEN GetDistrictBbox(OsmDistrict, bboxMem, bboxDisk, ok)
                          ELSE [bbox |-> None, mem |-> bboxMem, disk |-> bboxDisk, net |-> 0]
                 IN /\ vbox' = IF g.bbox # None THEN ExpandBbox(g.bbox, BBOX_BUFFER) ELSE None
                    /\ bboxMem' = g.mem
                    /\ bboxDisk' = g.disk
            /\ pc' = "t1"
            /\ UNCHANGED <<listings, failed, cur>>
    /\ UNCHANGED <<call, hist, site, saved, overridesFile, overrides, geomCache, toGeocode,
                   before, runs, edits>>

\* tiers 1 to 3 of geocode_listing: one _try_geocode call, or the tier is skipped
GLTier(t) ==
    /\ pc = TierPc(t)
    /\ IF ~TierApplies(t)
       THEN /\ pc' = TierPc(NextTier(t))
            /\ UNCHANGED <<listings, failed, cur, bboxMem, bboxDisk, log>>
       ELSE \E r1 \in Resp, r2 \in Resp, f1 \in BOOLEAN, f2 \in BOOLEAN :
              LET r == TryGeocode(t, TierQuery(t), CurSite.district, vbox,
                                  bboxMem, bboxDisk, r1, f1, r2, f2)
              IN /\ log' = log \o r.entries
                 /\ bboxMem' = r.mem
                 /\ bboxDisk' = r.disk
                 /\ IF r.result # None
                    THEN Returned(Rec(Some(r.result[1]), Some(r.result[2]), TierPrecision(t)))
                    ELSE /\ pc' = TierPc(NextTier(t))
                         /\ UNCHANGED <<listings, failed, cur>>
    /\ UNCHANGED <<call, hist, site, saved, overridesFile, overrides, geomCache, toGeocode,
                   vbox, before, runs, edits>>

GLTier1 == GLTier(1)
GLTier2 == GLTier(2)
GLTier3 == GLTier(3)

\* tier 4 (district centroid, no validation) and the final failure
GLTier4 ==
    /\ pc = "t4"
    /\ IF OsmDistrict = ""
       THEN /\ Returned(Rec(None, None, "failed"))
            /\ UNCHANGED log
       ELSE \E r \in Resp :
              /\ log' = Append(log, Entry(4, TierQuery(4), FALSE, r, "unchecked"))
              /\ IF r # None
                 THEN Returned(Rec(Some(r[1]), Some(r[2]), "district"))
                 ELSE Returned(Rec(None, None, "failed"))
    /\ UNCHANGED <<call, hist, site, saved, overridesFile, overrides, bboxMem, bboxDisk, geomCache,
                   toGeocode, vbox, before, runs, edits>>

(***************************************************************************)
(* geocode.py: run_geocoder                                                *)
(***************************************************************************)
\* a batch that processes every listing
NullLatAll(ls, i) == [k \in 1..Len(ls) |-> k]

\* to_geocode = [l for l in listings if l.get("lat") is None], in list order
RECURSIVE NullLat(_, _)
NullLat(ls, i) ==
    IF i > Len(ls) THEN <<>>
    ELSE (IF ls[i].lat = None THEN <<i>> ELSE <<>>) \o NullLat(ls, i + 1)

\* load_overrides
LoadOverrides == overridesFile

\* main's gate and the head of run_geocoder
RunGeocoderBegin ==
    /\ pc = "geocode"
    /\ NullLat(listings, 1) # <<>>
    /\ overrides' = LoadOverrides
    /\ toGeocode' = NullLat(listings, 1)
    /\ failed' = <<>>
    /\ cur' = 1
    /\ log' = <<>>
    /\ before' = listings
    /\ pc' = "gl_begin"
    /\ UNCHANGED <<call, hist, site, listings, saved, overridesFile, bboxMem, bboxDisk, geomCache,
                   vbox, runs, edits>>

\* main: "All already geocoded, skipping."
SkipGeocoder ==
    /\ pc = "geocode"
    /\ NullLat(listings, 1) = <<>>
    /\ before' = listings
    /\ pc' = "spread"
    /\ UNCHANGED <<call, hist, site, listings, saved, overridesFile, overrides, bboxMem, bboxDisk,
                   geomCache, toGeocode, cur, vbox, failed, log, runs, edits>>

Marker(street) == [lat |-> None, lng |-> None, street |-> street,
                   note |-> "needs manual geocoding"]
\* a batch that queues nothing for manual geocoding
NewOverridesNone(fs, acc) == acc

\* new_overrides: a marker for every failed listing whose id has no entry
RECURSIVE NewOverrides(_, _)
NewOverrides(fs, acc) ==
    IF fs = <<>> THEN acc
    ELSE LET lid == Str(site[Head(fs)].id) IN
         NewOverrides(Tail(fs),
                      IF lid \notin DOMAIN overrides
                      THEN Put(acc, lid, Marker(site[Head(fs)].street)) ELSE acc)
\* a save that writes the new markers only
MergeNewOnly(a, b) == b

\* {**overrides, **new_overrides}
Merge(a, b) == [k \in (DOMAIN a) \cup (DOMAIN b) |-> IF k \in DOMAIN b THEN b[k] ELSE a[k]]

\* the tail of run_geocoder: save the merged override map when there are new entries
RunGeocoderEnd ==
    /\ pc = "geo_end"
    /\ LET new == NewOverrides(failed, EmptyMap) IN
       overridesFile' = IF DOMAIN new # {} THEN Merge(overrides, new) ELSE overridesFile
    /\ pc' = "spread"
    /\ UNCHANGED <<call, hist, site, listings, saved, overrides, bboxMem, bboxDisk, geomCache,
                   toGeocode, cur, vbox, failed, log, before, runs, edits>>

(***************************************************************************)
(* spread.py                                                               *)
(***************************************************************************)
Abs(x) == IF x < 0 THEN 0 - x ELSE x

\* _normalize_street_for_query: drop "( ... )", then a trailing "district",
\* "dead end", "alley", "hightway", "highway" in turn, then expand abbreviations
DropLast(s, words) ==
    IF Len(s) >= 2 /\ Lower(s[Len(s)]) \in words THEN SubSeq(s, 1, Len(s) - 1) ELSE s

Expand(t) ==
    CASE t \in {"Ave", "Ave.", "av", "av.", "Av", "Av."} -> "Avenue"
      [] t \in {"St", "St."} -> "Street"
      [] OTHER -> t

NormalizeStreetForQuery(street) ==
    LET a == DropParens(street)
        b == DropLast(a, {"district"})
        b2 == IF Len(b) >= 3 /\ Lower(b[Len(b) - 1]) = "dead" /\ Lower(b[Len(b)]) = "end"
              THEN SubSeq(b, 1, Len(b) - 2) ELSE b
        c == DropLast(b2, {"alley"})
        d == DropLast(c, {"hightway"})
        e == DropLast(d, {"highway"})
    IN [i \in 1..Len(e) |-> Expand(e[i])]

\* the [a-z0-9]+ runs of a lower-cased token: a word is one run, a hyphen
\* splits a token in two, a full stop is dropped
AlnumRuns(t) ==
    CASE t = "Tolstoy-Street" -> <<"tolstoy", "street">>
      [] t \in {"St.", "st."} -> <<"st">>
      [] OTHER -> <<Lower(t)>>

RECURSIVE SlugRuns(_)
SlugRuns(s) == IF s = <<>> THEN <<>> ELSE AlnumRuns(Head(s)) \o SlugRuns(Tail(s))

\* the joined runs, or "street" when there is none
OrStreet(joined) == IF joined = <<>> THEN <<"street">> ELSE joined

\* _slug: lower-case, runs of other characters become "_"; "street" when empty
Slug(s) == OrStreet(SlugRuns(s))

\* str.lower() of every token
LowerAll(s) == [i \in 1..Len(s) |-> Lower(s[i])]

\* the ways (polylines of <<lat, lon>> vertices) the road-data service returns
\* for a normalized street name; every segment of the model runs along a
\* meridian, so its haversine length is proportional to its latitude span
\* Tolstoy Street is mapped as two ways and a stray node; Abovyan Street as
\* one way 44 m long; other names match nothing; the query's regex carries
\* the flag i, so the match ignores case
OverpassWays(name) ==
    CASE LowerAll(name) = <<"tolstoy", "street">> ->
            << <<<<2400, 2600>>, <<2500, 2600>>>>,
               <<<<3000, 2600>>, <<3500, 2600>>, <<4000, 2600>>>>,
               <<<<2500, 2700>>>> >>
      [] LowerAll(name) = <<"abovyan", "street">> -> << <<<<2500, 2400>>, <<2540, 2400>>>> >>
      [] OTHER -> <<>>

\* _haversine_m between two vertices on one meridian, in coordinate units
\* (one unit = 1.11195 m)
SegLen(a, b) == Abs(b[1] - a[1])

\* _polyline_length_m
RECURSIVE PolylineLength(_)
PolylineLength(line) ==
    IF Len(line) < 2 THEN 0
    ELSE SegLen(line[1], line[2]) + PolylineLength(Tail(line))

\* squared distance of two points in (10 units)^2 * 100, longitude scaled by
\* cos^2(40.18 deg) = 0.58
Dist2(p, v) ==
    LET dy == (p[1] - v[1]) \div 10
        dx == (p[2] - v[2]) \div 10
    IN 100 * dy * dy + 58 * dx * dx

\* _nearest_vertex_dist_m (squared, same scale as Dist2)
NearestVertexDist2(p, line) ==
    LET ds == {Dist2(p, line[k]) : k \in 1..Len(line)}
    IN CHOOSE d \in ds : \A e \in ds : d <= e

\* max_keep_dist_m = 2000 m, squared in the scale of Dist2
MaxKeepDist2 == 3235000
\* "total_length_m <= 50": 50 m in coordinate units, rounded down
MinLengthUnits == 44

\* list.sort(key = distance): stable insertion sort of the candidate lines
RECURSIVE InsertByDist(_, _, _)
InsertByDist(sorted, line, p) ==
    IF sorted = <<>> THEN <<line>>
    ELSE IF NearestVertexDist2(p, line) < NearestVertexDist2(p, Head(sorted))
    THEN <<line>> \o sorted
    ELSE <<Head(sorted)>> \o InsertByDist(Tail(sorted), line, p)

RECURSIVE SortByDist(_, _)
SortByDist(lines, p) ==
    IF lines = <<>> THEN <<>>
    ELSE InsertByDist(SortByDist(SubSeq(lines, 1, Len(lines) - 1), p), lines[Len(lines)], p)

RECURSIVE TotalLength(_)
TotalLength(lines) ==
    IF lines = <<>> THEN 0 ELSE PolylineLength(Head(lines)) + TotalLength(Tail(lines))

IsLine(x) == Len(x) >= 2

\* fetch_street_geometry after the response is at hand: None or the lines kept
GeometryFrom(data, centroid) ==
    LET candidates == SelectSeq(data, IsLine)
        sorted == SortByDist(candidates, centroid)
        IsNear(line) == NearestVertexDist2(centroid, line) <= MaxKeepDist2
        near == SelectSeq(sorted, IsNear)
        kept == IF near # <<>> THEN near
                ELSE SubSeq(sorted, 1, IF Len(sorted) < 5 THEN Len(sorted) ELSE 5)
    IN IF data = <<>> \/ candidates = <<>> THEN None
       ELSE IF TotalLength(kept) <= MinLengthUnits THEN None
       ELSE Some(kept)

\* fetch_street_geometry inside run_spread's try/except: the geometry (None
\* also when _post_overpass or json.loads of the cache file raised) and the
\* cache files afterwards; ok = some Overpass mirror answered
FetchStreetGeometry(street, centroid, cache, ok) ==
    LET normalized == NormalizeStreetForQuery(street)
        slug == Slug(normalized)
    IN IF slug \in DOMAIN cache
       THEN IF ~cache[slug].readable THEN [geom |-> None, cache |-> cache]
            ELSE [geom |-> GeometryFrom(cache[slug].ways, centroid), cache |-> cache]
       ELSE IF ~ok THEN [geom |-> None, cache |-> cache]
       ELSE [geom |-> GeometryFrom(OverpassWays(normalized), centroid),
             cache |-> Put(cache, slug, [readable |-> TRUE,
                                         ways |-> OverpassWays(normalized)])]

\* point_at_distance(line, dist)
RECURSIVE PointAtDistance(_, _)
PointAtDistance(line, dist) ==
    IF dist <= 0 \/ Len(line) < 2 THEN line[1]
    ELSE LET a == line[1]
             b == line[2]
             seg == SegLen(a, b)
         IN IF seg <= 0 THEN PointAtDistance(Tail(line), dist)
            ELSE IF dist <= seg
            THEN <<a[1] + ((b[1] - a[1]) * dist) \div seg,
                   a[2] + ((b[2] - a[2]) * dist) \div seg>>
            ELSE PointAtDistance(Tail(line), dist - seg)

\* the polyline the target falls on and the length before it
RECURSIVE Locate(_, _, _, _)
Locate(lines, k, target, prevC) ==
    LET c == prevC + PolylineLength(lines[k]) IN
    IF target <= c THEN <<k, target - prevC>>
    ELSE IF k = Len(lines) THEN <<1, target - c>>
    ELSE Locate(lines, k + 1, target, c)

\* an interpolation without the half-step offset: point i at total * i / n
InterpolatePointsNoOffset(lines, n) ==
    LET total == TotalLength(lines) IN
    IF n <= 0 \/ total <= 0 THEN <<>>
    ELSE [i \in 1..n |->
            LET loc == Locate(lines, 1, (total * (i - 1)) \div n, 0)
            IN PointAtDistance(lines[loc[1]], loc[2])]

\* interpolate_points_along_geometry: point i at total * (i + 0.5) / n
InterpolatePoints(lines, n) ==
    LET total == TotalLength(lines) IN
    IF n <= 0 \/ total <= 0 THEN <<>>
    ELSE [i \in 1..n |->
            LET target == (total * (2 * (i - 1) + 1)) \div (2 * n)
                loc == Locate(lines, 1, target, 0)
            IN PointAtDistance(lines[loc[1]], loc[2])]

\* _stable_u32(value): the first four bytes of SHA-256(value) as
\* <<high 16 bits, low 16 bits>>; value is <<str(id)>> or <<str(id), ":r">>
StableU32(value) ==
    CASE value = <<"1">> -> <<27526, 45683>>
      [] value = <<"1", ":r">> -> <<50018, 12132>>
      [] value = <<"2">> -> <<54387, 24122>>
      [] value = <<"2", ":r">> -> <<44942, 29363>>
      [] value = <<"3">> -> <<19975, 16517>>
      [] value = <<"3", ":r">> -> <<35014, 46896>>
      [] value = <<"4">> -> <<19234, 30583>>
      [] value = <<"4", ":r">> -> <<8583, 676>>
      [] value = <<"633">> -> <<46769, 46185>>
      [] value = <<"633", ":r">> -> <<2476, 42864>>
      [] value = <<"3128">> -> <<33455, 18822>>
      [] value = <<"3128", ":r">> -> <<14571, 64943>>
      [] value = <<"5626">> -> <<59029, 23084>>
      [] value = <<"5626", ":r">> -> <<33437, 2768>>
      [] OTHER -> <<0, 0>>

\* u % m for a 32-bit u held as two halves
ModU32(u, m) == ((u[1] % m) * (65536 % m) + u[2]) % m

\* "u % 3600" with u = _stable_u32(str(listing_id))
AngleStep(id) == ModU32(StableU32(<<Str(id)>>), 3600)

\* "u2 % 20_000": a modulus twice too wide
RadiusStepWide(id) == ModU32(StableU32(<<Str(id), ":r">>), 20000)

\* "u2 % 10_000" with u2 = _stable_u32(f"{listing_id}:r")
RadiusStep(id) == ModU32(StableU32(<<Str(id), ":r">>), 10000)

\* 10^4 * math.cos(step / 3600 * 2 pi), truncated, for the steps above
CosE4(step) ==
    CASE step = 819 -> 1409 [] step = 2954 -> 4289 [] step = 1317 -> 0 - 6652
      [] step = 2807 -> 1856 [] step = 1769 -> 0 - 9985 [] step = 3302 -> 8677
      [] step = 2028 -> 0 - 9218
      [] OTHER -> 10000

\* 10^4 * math.sin(step / 3600 * 2 pi), truncated
SinE4(step) ==
    CASE step = 819 -> 9900 [] step = 2954 -> 0 - 9033 [] step = 1317 -> 7466
      [] step = 2807 -> 0 - 9826 [] step = 1769 -> 540 [] step = 3302 -> 0 - 4969
      [] step = 2028 -> 0 - 3875
      [] OTHER -> 0

\* floor(sqrt(n)) by bisection: lo * lo <= n < hi * hi
RECURSIVE ISqrtIn(_, _, _)
ISqrtIn(n, lo, hi) ==
    IF hi - lo <= 1 THEN lo
    ELSE LET mid == (lo + hi) \div 2
             below == mid * mid <= n
         IN ISqrtIn(n, IF below THEN mid ELSE lo, IF below THEN hi ELSE mid)

ISqrt(n) == ISqrtIn(n, 0, 46340)

\* a / b rounded toward zero
TDiv(a, b) == IF a < 0 THEN 0 - ((0 - a) \div b) ELSE a \div b

\* 10^3 * max(math.cos(math.radians(lat)), 1e-6) at the latitudes of the model
CosLatE3 == 764

\* r = radius_m * math.sqrt(k / 10_000), in centimetres
JitterRadiusCm(id, radius) == (radius * ISqrt(RadiusStep(id) * 10000)) \div 100

\* the offset (dlat, dlon) of deterministic_jitter in coordinate units
\* (1e-5 degree): dlat = r cos(angle) / 111_111, dlon = r sin(angle) / denom
JitterOffset(id, radius) ==
    LET r == JitterRadiusCm(id, radius)
        step == AngleStep(id)
        north == TDiv(r * CosE4(step), 10000)
        east == TDiv(r * SinE4(step), 10000)
    IN <<TDiv(north * 9, 1000), TDiv(east * 9, CosLatE3)>>

\* a jitter that also depends on what was computed before (a per-process salt)
DeterministicJitterSalted(center, id, radius) ==
    <<center[1] + JitterOffset(id, radius)[1] + Cardinality(DOMAIN hist),
      center[2] + JitterOffset(id, radius)[2]>>

\* deterministic_jitter(center, listing_id, radius_m)
DeterministicJitter(center, id, radius) ==
    LET offset == JitterOffset(id, radius)
    IN <<center[1] + offset[1], center[2] + offset[2]>>

StreetPrecisions == {"street", "street_jitter", "street_spread"}

IdxSeq(ls) == [i \in 1..Len(ls) |-> i]

\* a first loop that takes every located listing with a street label
InByStreetAnyPrecision(ls, i) ==
    /\ ls[i].lat # None /\ ls[i].lng # None
    /\ site[i].street # <<>>

\* run_spread's first loop: who goes into by_street, who into district_level
InByStreet(ls, i) ==
    /\ ls[i].lat # None /\ ls[i].lng # None
    /\ site[i].street # <<>>
    /\ ls[i].prec \in StreetPrecisions

InDistrictLevel(ls, i) ==
    /\ ls[i].lat # None /\ ls[i].lng # None
    /\ ~InByStreet(ls, i)
    /\ ls[i].prec = "district"

\* by_street[street], in list order
Members(ls, street) ==
    LET In(i) == InByStreet(ls, i) /\ site[i].street = street
    IN SelectSeq(IdxSeq(ls), In)

RECURSIVE SumLat(_, _)
SumLat(ls, items) == IF items = <<>> THEN 0 ELSE ls[Head(items)].lat[1] + SumLat(ls, Tail(items))
RECURSIVE SumLng(_, _)
SumLng(ls, items) == IF items = <<>> THEN 0 ELSE ls[Head(items)].lng[1] + SumLng(ls, Tail(items))

\* every member of items gets deterministic_jitter around center and the tag
RECURSIVE JitterAll(_, _, _, _, _)
JitterAll(ls, items, center, radius, tag) ==
    IF items = <<>> THEN ls
    ELSE LET i == Head(items)
             p == DeterministicJitter(center, site[i].id, radius)
         IN JitterAll([ls EXCEPT ![i] = Rec(Some(p[1]), Some(p[2]), tag)],
                      Tail(items), center, radius, tag)

\* sorted(items, key = id): insertion sort
RECURSIVE InsertById(_, _)
InsertById(sorted, i) ==
    IF sorted = <<>> THEN <<i>>
    ELSE IF site[i].id < site[Head(sorted)].id THEN <<i>> \o sorted
    ELSE <<Head(sorted)>> \o InsertById(Tail(sorted), i)

RECURSIVE SortById(_)
SortById(items) ==
    IF items = <<>> THEN <<>>
    ELSE InsertById(SortById(SubSeq(items, 1, Len(items) - 1)), items[Len(items)])

RECURSIVE PlaceAll(_, _, _, _)
PlaceAll(ls, items, pts, k) ==
    IF k > Len(items) THEN ls
    ELSE PlaceAll([ls EXCEPT ![items[k]] = Rec(Some(pts[k][1]), Some(pts[k][2]), "street_spread")],
                  items, pts, k + 1)

\* a fallback radius as wide as the one for area-like groups
FallbackRadiusWide == 80 + 220

\* "radius = 80.0": the jitter radius, in metres, for a street without geometry
FallbackRadius == 80

\* a district loop that skips stacks of two
MinStackThree == 2 + 1

\* "if len(group) <= 1: continue": the smallest district stack that is jittered
MinStack == 2

\* the tag run_spread gives an area-like street group
AreaTag == "district_jitter"
\* a jitter fallback that tags the street group like a district stack
FallbackTagDistrict == "district_jitter"

\* the tag run_spread gives a street group without usable geometry
FallbackTag == "street_jitter"

\* "if len(pts) == len(items_sorted)": the points go to the listings in id order
PlaceSorted(ls, sorted, pts) ==
    IF Len(pts) = Len(sorted) THEN PlaceAll(ls, sorted, pts, 1) ELSE ls

\* the street loop's body once fetch_street_geometry has returned f
SpreadWith(ls, items, refCenter, f) ==
    IF f.geom = None
    THEN [ls |-> JitterAll(ls, items, refCenter, FallbackRadius, FallbackTag),
          cache |-> f.cache]
    ELSE [ls |-> PlaceSorted(ls, SortById(items),
                             InterpolatePoints(f.geom[1], Len(items))),
          cache |-> f.cache]

\* the street loop's body for a street that is not area-like
SpreadLine(ls, cache, street, ok, items, refCenter) ==
    SpreadWith(ls, items, refCenter, FetchStreetGeometry(street, refCenter, cache, ok))

\* the street loop's body for the group items of a street
SpreadGroup(ls, cache, street, ok, items) ==
    IF IsAreaLike(street)
    THEN [ls |-> JitterAll(ls, items, <<ls[items[1]].lat[1], ls[items[1]].lng[1]>>, 300, AreaTag),
          cache |-> cache]
    ELSE SpreadLine(ls, cache, street, ok, items,
                    <<SumLat(ls, items) \div Len(items), SumLng(ls, items) \div Len(items)>>)

\* the body of run_spread's street loop for one street with 2+ listings
SpreadStreet(ls, cache, street, ok) ==
    SpreadGroup(ls, cache, street, ok, Members(ls, street))

\* position of street.lower() in alphabetical order, for the labels of the model
LabelRank(street) ==
    CASE street = <<"Abovyan", "St.">> -> 1 [] street = Tolstoy -> 2
      [] street = <<"Unknown", "Lane">> -> 3 [] street = VahagniD -> 4 [] OTHER -> 0

\* streets.sort(key = (-len(items), street.lower()))
StreetBefore(ls, a, b) ==
    \/ Len(Members(ls, a)) > Len(Members(ls, b))
    \/ Len(Members(ls, a)) = Len(Members(ls, b)) /\ LabelRank(a) < LabelRank(b)

RECURSIVE SortStreets(_, _)
SortStreets(ls, S) ==
    IF S = {} THEN <<>>
    ELSE LET m == CHOOSE a \in S : \A b \in S \ {a} : StreetBefore(ls, a, b)
         IN <<m>> \o SortStreets(ls, S \ {m})

\* the streets with more than one listing, in processing order
StackedStreets(ls) ==
    SortStreets(ls, {site[i].street : i \in {j \in 1..Len(ls) :
                        InByStreet(ls, j) /\ Len(Members(ls, site[j].street)) > 1}})

\* the street loop: r is the outcome of the body for the first street
RECURSIVE SpreadStreets(_, _, _, _, _)
SpreadRest(r, ls0, streets, oks) == SpreadStreets(ls0, r.ls, r.cache, Tail(streets), oks)

SpreadStreets(ls0, ls, cache, streets, oks) ==
    IF streets = <<>> THEN [ls |-> ls, cache |-> cache]
    ELSE SpreadRest(SpreadStreet(ls, cache, Head(streets), oks[Head(streets)]),
                    ls0, streets, oks)

\* coord_groups_d: the district-level listings stacked on i's coordinate, in list order
Stack(ls0, ls, i) ==
    LET In(j) == InDistrictLevel(ls0, j) /\ ls[j].lat = ls[i].lat /\ ls[j].lng = ls[i].lng
    IN SelectSeq(IdxSeq(ls), In)

\* the district loop: every stack of 2+ is jittered around its first member
SpreadDistricts(ls0, ls) ==
    [i \in DOMAIN ls |->
        IF InDistrictLevel(ls0, i) /\ Len(Stack(ls0, ls, i)) >= MinStack
        THEN LET first == Stack(ls0, ls, i)[1]
                 p == DeterministicJitter(<<ls[first].lat[1], ls[first].lng[1]>>, site[i].id, 400)
             IN Rec(Some(p[1]), Some(p[2]), "district_jitter")
        ELSE ls[i]]

\* for each stacked street, whether some Overpass mirror answers if asked
SpreadOks(ls) ==
    LET streets == StackedStreets(ls)
    IN [{streets[k] : k \in 1..Len(streets)} -> BOOLEAN]

\* run_spread(ls): the listings and the geometry cache afterwards
SpreadEnd(ls, r) == [ls |-> SpreadDistricts(ls, r.ls), cache |-> r.cache]

RunSpreadOn(ls, cache, oks) ==
    SpreadEnd(ls, SpreadStreets(ls, ls, cache, StackedStreets(ls), oks))

\* "listings = run_spread(listings)" with r what run_spread leaves
SpreadResult(r) ==
    /\ listings' = r.ls
    /\ geomCache' = r.cache

RunSpread ==
    /\ pc = "spread"
    /\ \E oks \in SpreadOks(listings) : SpreadResult(RunSpreadOn(listings, geomCache, oks))
    /\ before' = listings
    /\ pc' = "persist"
    /\ UNCHANGED <<call, hist, site, saved, overridesFile, overrides, bboxMem, bboxDisk,
                   toGeocode, cur, vbox, failed, log, runs, edits>>

(***************************************************************************)
(* main.py: persist; the human who edits the override file between runs    *)
(***************************************************************************)
\* json.dump(listings) to data/listings.json, and the end of main
Persist ==
    /\ pc = "persist"
    /\ saved' = [i \in DOMAIN listings |->
                    [id |-> site[i].id, lat |-> listings[i].lat,
                     lng |-> listings[i].lng, prec |-> listings[i].prec]]
    /\ runs' = runs + 1
    /\ pc' = "idle"
    \* the process ends: what it held in memory besides the listings is gone
    /\ overrides' = EmptyMap
    /\ bboxMem' = [loaded |-> FALSE, map |-> EmptyMap]
    /\ toGeocode' = <<>>
    /\ cur' = 0
    /\ vbox' = None
    /\ failed' = <<>>
    /\ log' = <<>>
    /\ before' = listings
    /\ UNCHANGED <<call, hist, site, listings, overridesFile, bboxDisk, geomCache, edits>>

\* between two runs a human types coordinates for a listing id into the
\* override file (a new entry, or in place of a marker)
HumanEdit ==
    /\ pc = "idle"
    /\ edits < MaxEdits
    /\ \E i \in DOMAIN site, p \in OverridePoints :
          overridesFile' = Put(overridesFile, Str(site[i].id),
                               [lat |-> Some(p[1]), lng |-> Some(p[2]),
                                street |-> site[i].street, note |-> ""])
    /\ edits' = edits + 1
    /\ UNCHANGED <<call, hist, site, listings, saved, overrides, bboxMem, bboxDisk, geomCache, pc,
                   toGeocode, cur, vbox, failed, log, before, runs>>

Next ==
    \/ StartRun
    \/ CarryForward
    \/ ResetBadGeocodes
    \/ RunGeocoderBegin
    \/ SkipGeocoder
    \/ GLBegin
    \/ GLTier1
    \/ GLTier2
    \/ GLTier3
    \/ GLTier4
    \/ RunGeocoderEnd
    \/ RunSpread
    \/ Persist
    \/ HumanEdit

Spec == Init /\ [][Next]_vars

(***************************************************************************)
(* geocode_listing called on its own: any listing record, any override map *)
(***************************************************************************)
\* geo fields a listing record can carry when geocode_listing is called
CallInputs ==
    { Rec(None, None, ""), Rec(None, None, "failed"), Rec(None, None, "override"),
      Rec(Some(2400), Some(2400), "source_approx"),
      Rec(Some(2400), Some(2400), "street"),
      Rec(Some(2400), Some(2400), "district_jitter") }

\* override maps for the listing's id: none, coordinates, marker
CallOverrides(p) ==
    { EmptyMap,
      Put(EmptyMap, Str(p.id), [lat |-> Some(2600), lng |-> Some(2600),
                                street |-> p.street, note |-> ""]),
      Put(EmptyMap, Str(p.id), Marker(p.street)) }

InitCall ==
    /\ site \in Scenarios
    /\ \E k \in DOMAIN site, r \in CallInputs :
          /\ listings = [i \in DOMAIN site |-> IF i = k THEN r ELSE Scraped(site[i])]
          /\ toGeocode = <<k>>
          /\ overrides \in CallOverrides(site[k])
    /\ overridesFile = overrides
    /\ saved = <<>>
    /\ bboxMem = [loaded |-> FALSE, map |-> EmptyMap]
    /\ bboxDisk \in {EmptyMap, Put(EmptyMap, "Kentron", ServiceBBox("Kentron"))}
    /\ geomCache = EmptyMap
    /\ pc = "gl_begin"
    /\ cur = 1
    /\ vbox = None
    /\ failed = <<>>
    /\ log = <<>>
    /\ before = listings
    /\ runs = 0
    /\ edits = 0
    /\ call = None
    /\ hist = <<>>

NextCall == GLBegin \/ GLTier1 \/ GLTier2 \/ GLTier3 \/ GLTier4

SpecCall == InitCall /\ [][NextCall]_vars

(***************************************************************************)
(* Properties                                                              *)
(***************************************************************************)
\* the listing geocode_listing returned last, once it has returned
Returning == pc \in {"gl_begin", "geo_end"} /\ cur > 1
Last == toGeocode[cur - 1]
LastId == Str(site[Last].id)

\* C1: geocode_listing, for every listing whose id is a key of the override
\* map, sets lat/lng to the entry's lat/lng and the precision to "override"
\* and issues no geocoding query, whatever fields the listing carries.
C1_OverrideAlwaysApplied ==
    (Returning /\ LastId \in DOMAIN overrides) =>
        /\ listings[Last] = Rec(overrides[LastId].lat, overrides[LastId].lng, "override")
        /\ log = <<>>

\* C2: after a batch (reset, then run_geocoder) every listing whose id has an
\* override entry with non-null lat/lng has exactly those coordinates and
\* precision "override", whatever it carried into the run.
C2_OverrideWinsAfterBatch ==
    pc = "geo_end" =>
        \A i \in Idx :
            LET lid == Str(site[i].id) IN
            (lid \in DOMAIN overrides /\ overrides[lid].lat # None /\ overrides[lid].lng # None)
            => listings[i] = Rec(overrides[lid].lat, overrides[lid].lng, "override")

\* entries of the current listing's log that belong to tier t
TierEntries(t) == LET Is(e) == e.tier = t IN SelectSeq(log, Is)

\* a logged answer that the tier took as its result
Taken(e) == e.res # None /\ e.v # "false"

\* C3: without an override the tiers full-address, street+district,
\* street-only, district-centroid are attempted in that order and the first
\* accepted result decides: every earlier applicable tier was queried and gave
\* no accepted result, and nothing is queried after a success.
C3_TierOrder ==
    (/\ Returning
     /\ LastId \notin DOMAIN overrides
     /\ listings[Last].prec \in {"address", "street", "district", "failed"}) =>
        LET l == listings[Last]
            hasStreet == NormalizeStreet(site[Last].street) # <<>>
            applicable(t) ==
                IF t = 1 THEN site[Last].number # "" /\ hasStreet
                ELSE IF t \in {2, 3} THEN hasStreet
                ELSE DISTRICT_ALIASES(site[Last].district) # ""
            endTier == IF l.prec = "failed" THEN 5 ELSE log[Len(log)].tier
        IN /\ l.prec # "failed" =>
                /\ log # <<>>
                /\ Taken(log[Len(log)])
                /\ l.lat = Some(log[Len(log)].res[1])
                /\ l.lng = Some(log[Len(log)].res[2])
                /\ l.prec = (IF endTier = 1 THEN "address"
                             ELSE IF endTier \in {2, 3} THEN "street" ELSE "district")
           /\ \A j \in 1..Len(log), k \in 1..Len(log) : j < k => log[j].tier <= log[k].tier
           /\ \A k \in 1..Len(log) : k < Len(log) => ~Taken(log[k])
           /\ \A k \in 1..Len(log) : log[k].tier <= endTier /\ applicable(log[k].tier)
           /\ \A t \in 1..4 : (t < endTier /\ applicable(t)) =>
                /\ TierEntries(t) # <<>>
                /\ \A k \in 1..Len(log) : log[k].tier = t => ~Taken(log[k])

\* all three validated tiers were tried in order and the third one was accepted
C3_Witness ==
    /\ Returning
    /\ LastId \notin DOMAIN overrides
    /\ listings[Last].prec = "street"
    /\ Len(log) >= 3
    /\ log[1].tier = 1
    /\ TierEntries(2) # <<>>
    /\ log[Len(log)].tier = 3

\* C4: in _try_geocode, whenever the first candidate is classified outside the
\* buffered district box, exactly one further query is issued, with the same
\* query string and bounded=True; the tier gives nothing if that retry fails or
\* is outside again; no tier issues more than two geocoding queries.
C4_OneBoundedRetry ==
    \A t \in 1..3 :
        LET es == TierEntries(t) IN
        /\ Len(es) <= 2
        /\ (Len(es) >= 1 /\ es[1].v = "false") =>
              /\ Len(es) = 2
              /\ es[2].bounded
              /\ es[2].q = es[1].q
        /\ (Len(es) = 2 /\ ~Taken(es[2])) =>
              ~(Returning /\ log[Len(log)].tier = t /\ listings[Last].lat # None)

\* C5: a coordinate accepted by a validated tier (precision address or street)
\* was classified inside the buffered district box, or the box was unknown;
\* it is never one the check classified as outside.
C5_AcceptedNeverOutside ==
    (Returning /\ listings[Last].prec \in {"address", "street"} /\ log # <<>>) =>
        LET e == log[Len(log)]
            osm == Strip(DISTRICT_ALIASES(site[Last].district))
        IN /\ e.res # None
           /\ listings[Last].lat = Some(e.res[1])
           /\ listings[Last].lng = Some(e.res[2])
           /\ e.v \in {"true", "none"}
           /\ osm \in DOMAIN bboxMem.map =>
                InsideBox(e.res[1], e.res[2], ExpandBbox(bboxMem.map[osm], BBOX_BUFFER))
           /\ e.v = "none" => osm \notin DOMAIN bboxMem.map

\* a candidate was accepted as-is because the district's box was unknown
C5_Witness ==
    /\ Returning
    /\ listings[Last].prec = "street"
    /\ log # <<>>
    /\ log[Len(log)].v = "none"
    /\ site[Last].district # ""

C7_OverridesOnlyGrow ==
    [][(pc # "idle" \/ pc' # "idle") =>
         \A k \in DOMAIN overridesFile :
            k \in DOMAIN overridesFile' /\ overridesFile'[k] = overridesFile[k]]_vars

\* a batch added a marker next to an entry a human had written
C7_Witness ==
    /\ pc = "spread"
    /\ \E a \in DOMAIN overridesFile, b \in DOMAIN overridesFile :
          /\ overridesFile[a].lat # None
          /\ overridesFile[b].note = "needs manual geocoding"
          /\ b \notin DOMAIN overrides

GeocoderStages == {"gl_begin", "t1", "t2", "t3", "t4", "geo_end"}

\* C8: run_geocoder leaves lat, lng and precision unchanged, and issues no
\* query, for every listing that enters the batch with non-null coordinates;
\* only listings with null coordinates are processed.
C8_GeocodedSkipped ==
    pc \in GeocoderStages =>
        /\ \A i \in Idx :
              (before[i].lat # None /\ before[i].lng # None) =>
                  /\ listings[i] = before[i]
                  /\ \A k \in 1..Len(toGeocode) : toGeocode[k] # i
        /\ \A k \in 1..Len(toGeocode) : before[toGeocode[k]].lat = None

\* one listing was skipped while another of the same batch was geocoded
C8_Witness ==
    /\ pc = "geo_end"
    /\ \E i \in Idx, j \in Idx :
          /\ before[i].lat # None
          /\ before[j].lat = None
          /\ listings[j].lat # None

\* the confidence order of the precision tags (higher = more trusted)
Rank(p) ==
    CASE p = "override" -> 7
      [] p = "source_map" -> 6
      [] p = "address" -> 5
      [] p \in {"street", "street_spread", "street_jitter"} -> 4
      [] p \in {"district", "district_jitter"} -> 3
      [] p = "source_approx" -> 2
      [] p = "failed" -> 1
      [] OTHER -> 0

\* C9 as stated: no operation other than the explicit reset ever replaces a
\* listing's precision by a lower-confidence one (StartRun builds new records
\* and is no replacement).
C9_NoSilentDowngrade ==
    [][pc \notin {"idle", "reset"} =>
         \A i \in Idx :
            listings[i].prec # "" => Rank(listings'[i].prec) >= Rank(listings[i].prec)]_vars

\* C9 as amended: no operation other than the explicit reset replaces a
\* listing's precision by a lower-confidence one, except run_spread, which
\* re-tags the street-level members of an area-like street group (label
\* containing "district") district_jitter.
C9_NoDowngradeButAreaRetag ==
    [][pc \notin {"idle", "reset"} =>
         \A i \in Idx :
            (listings[i].prec # "" /\ Rank(listings'[i].prec) < Rank(listings[i].prec)) =>
                /\ pc = "spread"
                /\ listings[i].prec \in {"street", "street_spread", "street_jitter"}
                /\ \E k \in 1..Len(site[i].street) : site[i].street[k] \in DistrictTokens
                /\ listings'[i].prec = "district_jitter"]_vars

\* run_spread re-tagged a street-level listing without lowering its confidence
C9_Witness ==
    /\ pc = "persist"
    /\ \E i \in Idx :
          /\ before[i].prec = "street"
          /\ listings[i].prec \in {"street_spread", "street_jitter"}

\* C10: the reset nulls a listing's coordinates and precision if and only if
\* (a) its precision is district or district_jitter, or (b) its precision is
\* street-level and its coordinates are classified outside its district's
\* buffered box; every other listing is left unchanged.  (The box a listing
\* was checked against is on disk after the reset; a box on disk before it is
\* known to the check.)
C10_ResetExactly ==
    [][pc = "reset" =>
         \A i \in Idx :
            LET l == listings[i]
                osm == Strip(DISTRICT_ALIASES(site[i].district))
                outside(cache) ==
                    /\ l.lat # None /\ l.lng # None
                    /\ osm \in DOMAIN cache
                    /\ ~InsideBox(l.lat[1], l.lng[1], ExpandBbox(cache[osm], BBOX_BUFFER))
                streetLevel == l.prec \in {"street", "street_spread", "street_jitter"}
            IN /\ l.prec \in {"district", "district_jitter"} => listings'[i] = Rec(None, None, "")
               /\ (streetLevel /\ outside(bboxDisk)) => listings'[i] = Rec(None, None, "")
               /\ listings'[i] # l =>
                    /\ listings'[i] = Rec(None, None, "")
                    /\ \/ l.prec \in {"district", "district_jitter"}
                       \/ streetLevel /\ outside(bboxDisk')]_vars


(***************************************************************************)
(* geocode.py: the district box functions called on their own              *)
(***************************************************************************)
\* the pipeline's variables, which direct calls of single functions leave alone
pipeline == <<site, listings, saved, overridesFile, overrides, geomCache, pc,
              toGeocode, cur, vbox, failed, log, before, runs, edits>>

\* the pipeline not running
Parked ==
    /\ site = <<>>
    /\ listings = <<>>
    /\ saved = <<>>
    /\ overridesFile = EmptyMap
    /\ overrides = EmptyMap
    /\ geomCache = EmptyMap
    /\ pc = "idle"
    /\ toGeocode = <<>>
    /\ cur = 1
    /\ vbox = None
    /\ failed = <<>>
    /\ log = <<>>
    /\ before = <<>>
    /\ runs = 0
    /\ edits = 0

\* district arguments: names the service knows, an alias, padded, unknown, empty
BboxDistricts == {"Kentron", "Center", " Kentron ", "Arabkir", "Nork", ""}

\* coordinates around the buffered Kentron box (700..4300 on both axes)
BboxCoords == {699, 700, 2500, 4300, 4301}

\* data/district_bbox.json at the start: absent, holding Kentron, or holding a
\* malformed entry for Kentron
BboxDisks ==
    { EmptyMap, Put(EmptyMap, "Kentron", ServiceBBox("Kentron")),
      Put(EmptyMap, "Kentron", <<1000, 4000>>) }

InitBbox ==
    /\ Parked
    /\ bboxMem = [loaded |-> FALSE, map |-> EmptyMap]
    /\ bboxDisk \in BboxDisks
    /\ call = None
    /\ hist = EmptyMap

\* get_district_bbox(d); hist keeps the first answer given for each district
GetDistrictBboxCall ==
    \E d \in BboxDistricts, ok \in BOOLEAN :
        LET g == GetDistrictBbox(d, bboxMem, bboxDisk, ok) IN
        /\ call' = [fn |-> "get_district_bbox", district |-> Strip(d),
                    bbox |-> g.bbox, net |-> g.net,
                    again |-> Strip(d) \in DOMAIN hist]
        /\ hist' = IF Strip(d) \in DOMAIN hist THEN hist
                   ELSE Put(hist, Strip(d), g.bbox)
        /\ bboxMem' = g.mem
        /\ bboxDisk' = g.disk
        /\ UNCHANGED pipeline

\* in_district_bbox(lat, lng, d)
InDistrictBboxCall ==
    \E lat \in BboxCoords, lng \in BboxCoords, d \in BboxDistricts, ok \in BOOLEAN :
        LET r == InDistrictBbox(Some(lat), Some(lng), d, bboxMem, bboxDisk, ok) IN
        /\ call' = [fn |-> "in_district_bbox", lat |-> lat, lng |-> lng,
                    district |-> Strip(DISTRICT_ALIASES(d)), v |-> r.v, net |-> r.net]
        /\ bboxMem' = r.mem
        /\ bboxDisk' = r.disk
        /\ UNCHANGED <<hist, pipeline>>

\* a later run: a new process starts with _DISTRICT_BBOX_MEM_CACHE = None
NewProcess ==
    /\ bboxMem.loaded
    /\ bboxMem' = [loaded |-> FALSE, map |-> EmptyMap]
    /\ UNCHANGED <<call, hist, bboxDisk, pipeline>>

\* lookups of district boxes, over several processes
NextBbox == GetDistrictBboxCall \/ NewProcess

SpecBbox == InitBbox /\ [][NextBbox]_vars

\* point classifications, over several processes
NextInBox == InDistrictBboxCall \/ NewProcess

SpecInBox == InitBbox /\ [][NextInBox]_vars

C12_LookupOnce ==
    (call # None /\ call.fn = "get_district_bbox" /\ call.again) =>
        /\ call.net = 0
        /\ call.bbox = hist[call.district]


(***************************************************************************)
(* spread.py: deterministic_jitter called on its own                       *)
(***************************************************************************)
\* earlier calls remembered for comparison
MaxJitterCalls == 1

\* listing ids: the pipeline's, and the smallest ids whose radius hash gives
\* k = 0 (633) and k = 9999 (3128)
JitterIds == {1, 2, 3, 4, 633, 3128}

JitterCenters == {<<2500, 2500>>, <<6500, 1200>>}

\* the radii run_spread passes
JitterRadii == {80, 300, 400}

InitJitter ==
    /\ Parked
    /\ bboxMem = [loaded |-> FALSE, map |-> EmptyMap]
    /\ bboxDisk = EmptyMap
    /\ call = None
    /\ hist = EmptyMap

\* deterministic_jitter(center, id, radius_m = radius); hist keeps the result
\* of the first calls, by argument triple
DeterministicJitterCall ==
    \E center \in JitterCenters, id \in JitterIds, radius \in JitterRadii :
        LET key == <<center, id, radius>>
            out == DeterministicJitter(center, id, radius)
        IN /\ call' = [fn |-> "deterministic_jitter", center |-> center, id |-> id,
                       radius |-> radius, out |-> out, again |-> key \in DOMAIN hist]
           /\ hist' = IF key \in DOMAIN hist \/ Cardinality(DOMAIN hist) >= MaxJitterCalls
                      THEN hist ELSE Put(hist, key, out)
           /\ UNCHANGED <<bboxMem, bboxDisk, pipeline>>

\* other work of the program between two calls: a district box gets cached
OtherWork ==
    /\ \E d \in {"Kentron", "Arabkir"} :
          LET g == GetDistrictBbox(d, bboxMem, bboxDisk, TRUE) IN
          /\ g.net = 1
          /\ bboxMem' = g.mem
          /\ bboxDisk' = g.disk
    /\ UNCHANGED <<call, hist, pipeline>>

NextJitter == DeterministicJitterCall \/ OtherWork

SpecJitter == InitJitter /\ [][NextJitter]_vars

\* the offset of the last call, north and east, in decimetres
JitterNorthDm == TDiv((call.out[1] - call.center[1]) * 100, 9)
JitterEastDm == TDiv((call.out[2] - call.center[2]) * CosLatE3, 90)

MaxSpreadCalls == 2

\* the pipeline's listings, and groups on a street with a 44 m geometry, on a
\* street the road data does not know, and with ids whose radius hash is 0
SpreadSites ==
    Scenarios \cup
    { << Prof(1, "besthouse", <<"Abovyan", "St.">>, "Kentron", "", None),
         Prof(2, "besthouse", <<"Abovyan", "St.">>, "Kentron", "", None),
         Prof(3, "besthouse", Tolstoy, "Kentron", "", None) >>,
      << Prof(1, "besthouse", <<"Unknown", "Lane">>, "Kentron", "", None),
         Prof(2, "besthouse", <<"Unknown", "Lane">>, "Kentron", "", None),
         Prof(3, "besthouse", <<>>, "Kentron", "", None) >>,
      << Prof(633, "besthouse", <<>>, "Arabkir", "", None),
         Prof(5626, "besthouse", <<>>, "Arabkir", "", None),
         Prof(1, "besthouse", <<>>, "Arabkir", "", None) >> }

\* geo fields of a listing when run_spread is first called
SpreadInputs ==
    { Rec(None, None, "failed"),
      Rec(Some(PIn[1]), Some(PIn[2]), "street"),
      Rec(Some(PCorner[1]), Some(PCorner[2]), "street"),
      Rec(Some(PIn[1]), Some(PIn[2]), "district"),
      Rec(Some(PFar[1]), Some(PFar[2]), "district"),
      Rec(Some(PIn[1]), Some(PIn[2]), "address") }

\* data/raw at the start: empty, or an unreadable file for Tolstoy Street
SpreadCaches ==
    { EmptyMap,
      Put(EmptyMap, Slug(<<"Tolstoy", "Street">>), [readable |-> FALSE, ways |-> <<>>]) }

InitSpread ==
    /\ site \in SpreadSites
    /\ listings \in [DOMAIN site -> SpreadInputs]
    /\ geomCache \in SpreadCaches
    /\ before = listings
    /\ call = [fn |-> "run_spread", n |-> 0]
    /\ hist = None
    /\ saved = <<>>
    /\ overridesFile = EmptyMap
    /\ overrides = EmptyMap
    /\ bboxMem = [loaded |-> FALSE, map |-> EmptyMap]
    /\ bboxDisk = EmptyMap
    /\ pc = "spread"
    /\ toGeocode = <<>>
    /\ cur = 1
    /\ vbox = None
    /\ failed = <<>>
    /\ log = <<>>
    /\ runs = 0
    /\ edits = 0

\* listings = run_spread(listings); call.n counts the calls, hist keeps the
\* cache files and the answers of the road-data service the call met
RunSpreadCall ==
    /\ call.n < MaxSpreadCalls
    /\ \E oks \in SpreadOks(listings) :
          /\ SpreadResult(RunSpreadOn(listings, geomCache, oks))
          /\ hist' = Some([cache |-> geomCache, oks |-> oks])
    /\ before' = listings
    /\ call' = [call EXCEPT !.n = call.n + 1]
    /\ UNCHANGED <<site, saved, overridesFile, overrides, bboxMem, bboxDisk, pc,
                   toGeocode, cur, vbox, failed, log, runs, edits>>

NextSpread == RunSpreadCall

SpecSpread == InitSpread /\ [][NextSpread]_vars

\* C15: a second call of run_spread in a row, on the same listings and with
\* the cached street geometry unchanged, leaves every listing that the first
\* call left street_spread or district_jitter with its lat, lng and precision.
C15_SpreadIdempotent ==
    [][(call.n >= 1 /\ call'.n = call.n + 1 /\ geomCache' = geomCache) =>
          \A i \in DOMAIN listings :
              listings[i].prec \in {"street_spread", "district_jitter"} =>
                  listings'[i] = listings[i]]_vars


\* p lies within radius metres of c (111 111 m per degree of latitude,
\* scaled by cos(lat) for longitude), computed in decimetres
WithinM(p, c, radius) ==
    LET north == TDiv((p[1] - c[1]) * 100, 9)
        east == TDiv((p[2] - c[2]) * CosLatE3, 90)
    IN north * north + east * east <= (radius * 10) * (radius * 10)

Pos(l) == <<l.lat[1], l.lng[1]>>

\* i and j entered the last call of run_spread as members of one district
\* stack: precision 'district' and exactly equal coordinates
Stacked(i, j) ==
    /\ i # j
    /\ before[i].prec = "district" /\ before[j].prec = "district"
    /\ before[i].lat # None /\ before[i].lng # None
    /\ before[i].lat = before[j].lat /\ before[i].lng = before[j].lng

\* C16 as stated: every member of a district stack of two or more gets
\* precision district_jitter and a position within 400 m of the shared
\* coordinate, and members with different ids get different positions.
C16_DistrictStackDistinct ==
    call.n >= 1 =>
        \A i \in DOMAIN before, j \in DOMAIN before :
            Stacked(i, j) =>
                /\ listings[i].prec = "district_jitter"
                /\ WithinM(Pos(listings[i]), Pos(before[i]), 400)
                /\ site[i].id # site[j].id => Pos(listings[i]) # Pos(listings[j])

\* C16, amended: every member of a district stack of two or more gets
\* precision district_jitter and a position within 400 m of the shared
\* coordinate; members with different ids get different positions unless
\* their ids hash to the same offset (the same k with k = 0 or with the same
\* angle step).
C16_DistrictStackJittered ==
    call.n >= 1 =>
        \A i \in DOMAIN before, j \in DOMAIN before :
            Stacked(i, j) =>
                /\ listings[i].prec = "district_jitter"
                /\ WithinM(Pos(listings[i]), Pos(before[i]), 400)
                /\ \/ Pos(listings[i]) # Pos(listings[j])
                   \/ /\ RadiusStep(site[i].id) = RadiusStep(site[j].id)
                      /\ \/ RadiusStep(site[i].id) = 0
                         \/ AngleStep(site[i].id) = AngleStep(site[j].id)

\* three listings stacked on one district centroid, jittered to three points
C16_Witness ==
    /\ call.n = 1
    /\ \A i \in DOMAIN before, j \in DOMAIN before : i # j => Stacked(i, j)
    /\ \A i \in DOMAIN before, j \in DOMAIN before :
          i # j => Pos(listings[i]) # Pos(listings[j])
    /\ \A i \in DOMAIN listings : listings[i].prec = "district_jitter"

\* the members of street's group when the last call of run_spread began
GroupBefore(street) == Members(before, street)

\* the average coordinate of the group
GroupCenter(street) ==
    <<SumLat(before, GroupBefore(street)) \div Len(GroupBefore(street)),
      SumLng(before, GroupBefore(street)) \div Len(GroupBefore(street))>>

\* the last call obtained no usable geometry for the street's group: every
\* mirror failed, the cache file was unreadable, the street was not found or
\* the ways found are 50 m long or less
NoGeometry(street) ==
    FetchStreetGeometry(street, GroupCenter(street), hist[1].cache,
                        hist[1].oks[street]).geom = None

\* C18: for a street group of two or more listings whose label is not
\* area-like, when no usable geometry is obtained, run_spread gives every
\* member precision street_jitter and places it within 80 m of the group's
\* average coordinate (and returns normally).
C18_FallbackJitter ==
    call.n >= 1 =>
        \A k \in DOMAIN site :
            LET street == site[k].street IN
            (/\ Len(GroupBefore(street)) >= 2
             /\ ~IsAreaLike(street)
             /\ NoGeometry(street)) =>
                \A m \in 1..Len(GroupBefore(street)) :
                    LET i == GroupBefore(street)[m] IN
                    /\ listings[i].prec = "street_jitter"
                    /\ WithinM(Pos(listings[i]), GroupCenter(street), 80)

\* a group on a street whose fetched geometry is 44 m long falls back
C18_Witness ==
    /\ call.n = 1
    /\ site[1].street = <<"Abovyan", "St.">>
    /\ Len(GroupBefore(site[1].street)) = 2
    /\ hist[1].oks[site[1].street]
    /\ NoGeometry(site[1].street)
    /\ listings[1].prec = "street_jitter" /\ listings[2].prec = "street_jitter"
    /\ Pos(listings[1]) # Pos(listings[2])


(***************************************************************************)
(* spread.py: interpolate_points_along_geometry called on its own          *)
(***************************************************************************)
\* the largest number of points asked for
MaxPoints == 6

\* where the first of two polylines ends; the two are 1200 units long together
InterpCuts == {120, 240, 360, 480, 600, 720, 840, 960, 1080}

\* geometries 1200 units long (so that every target is a whole number): two
\* polylines with a gap between them; one polyline of two segments; polylines
\* with a repeated vertex and a polyline of length 0; one running southwards
InterpGeometries ==
    { << <<<<0, 0>>, <<c, 0>>>>, <<<<c + 100, 50>>, <<1300, 50>>>> >> : c \in InterpCuts }
    \cup
    { << <<<<0, 0>>, <<600, 0>>, <<1200, 0>>>> >>,
      << <<<<0, 0>>, <<0, 0>>, <<240, 0>>>>, <<<<500, 0>>, <<500, 0>>>>,
         <<<<700, 0>>, <<1660, 0>>>> >>,
      << <<<<1200, 0>>, <<0, 0>>>> >> }

InitInterp ==
    /\ Parked
    /\ bboxMem = [loaded |-> FALSE, map |-> EmptyMap]
    /\ bboxDisk = EmptyMap
    /\ hist = None
    /\ \E lines \in InterpGeometries, n \in 1..MaxPoints :
          call = [fn |-> "interpolate_points_along_geometry", lines |-> lines,
                  n |-> n, done |-> FALSE, out |-> <<>>]

\* out = interpolate_points_along_geometry(StreetGeometry(lines), n)
InterpolateCall ==
    /\ ~call.done
    /\ call' = [call EXCEPT !.done = TRUE, !.out = InterpolatePoints(call.lines, call.n)]
    /\ UNCHANGED <<hist, bboxMem, bboxDisk, pipeline>>

NextInterp == InterpolateCall

SpecInterp == InitInterp /\ [][NextInterp]_vars

\* the total length of the polylines before the k-th
RECURSIVE LengthBefore(_, _)
LengthBefore(lines, k) ==
    IF k <= 1 THEN 0 ELSE LengthBefore(lines, k - 1) + PolylineLength(lines[k - 1])

\* p lies at arc-length s along the concatenated polylines: on some segment
\* (a, b) of some polyline, d further than the length before the segment
AtArcLength(lines, p, s) ==
    \E k \in 1..Len(lines) : \E j \in 1..(Len(lines[k]) - 1) :
        LET a == lines[k][j]
            b == lines[k][j + 1]
            seg == SegLen(a, b)
            d == s - LengthBefore(lines, k) - PolylineLength(SubSeq(lines[k], 1, j))
        IN /\ seg > 0 /\ 0 <= d /\ d <= seg
           /\ p = <<a[1] + ((b[1] - a[1]) * d) \div seg,
                    a[2] + ((b[2] - a[2]) * d) \div seg>>

\* the arc-length L * (i + 0.5) / N of the i-th point, points counted from 1
InterpTarget(i) == (TotalLength(call.lines) * (2 * i - 1)) \div (2 * call.n)

\* C17 as stated: for N >= 1 and a geometry of total length L > 0, the
\* function returns N points, point i at arc-length L * (i + 0.5) / N along
\* the concatenated polylines, and no returned point coincides with the first
\* or last vertex of any polyline of the geometry.
C17_InterpolateNoVertex ==
    call.done =>
        /\ Len(call.out) = call.n
        /\ \A i \in 1..call.n :
              /\ AtArcLength(call.lines, call.out[i], InterpTarget(i))
              /\ \A k \in 1..Len(call.lines) :
                    /\ call.out[i] # call.lines[k][1]
                    /\ call.out[i] # call.lines[k][Len(call.lines[k])]

\* C17, amended: the function returns N points, point i at arc-length
\* s = L * (i + 0.5) / N along the concatenated polylines, with 0 < s < L: no
\* returned point is the first vertex of the first polyline or the last
\* vertex of the last one; a returned point coincides with the last vertex of
\* an earlier polyline exactly when s equals the length up to its end.
C17_InterpolateArcLength ==
    call.done =>
        /\ Len(call.out) = call.n
        /\ \A i \in 1..call.n :
              /\ AtArcLength(call.lines, call.out[i], InterpTarget(i))
              /\ 0 < InterpTarget(i) /\ InterpTarget(i) < TotalLength(call.lines)
              /\ call.out[i] # call.lines[1][1]
              /\ call.out[i] # call.lines[Len(call.lines)][Len(call.lines[Len(call.lines)])]
              /\ \A k \in 1..(Len(call.lines) - 1) :
                    (call.out[i] = call.lines[k][Len(call.lines[k])]) <=>
                        (/\ InterpTarget(i) = LengthBefore(call.lines, k + 1)
                         /\ PolylineLength(call.lines[k]) > 0)

\* three points on two polylines, the second point on the junction
C17_Witness ==
    /\ call.done /\ call.n = 3 /\ Len(call.lines) = 2
    /\ call.out[2] = call.lines[1][Len(call.lines[1])]
    /\ call.out[1] = <<200, 0>>


(***************************************************************************)
(* spread.py, isochrones.py, greens.py: _post_overpass called on its own   *)
(***************************************************************************)
\* the mirror list, the same three endpoints in the three modules
OVERPASS_URLS ==
    << "https://overpass-api.de/api/interpreter",
       "https://overpass.kumi.systems/api/interpreter",
       "https://overpass.nchc.org.tw/api/interpreter" >>

\* the modules that carry a copy of _post_overpass
OverpassModules == {"spread", "isochrones", "greens"}

\* the inter-request delays, in tenths of a second
REQUEST_DELAY == 11
OVERPASS_DELAY_S == 11

\* the delay a module's copy sleeps before each attempt
RequestDelay(module) ==
    IF module = "isochrones" THEN OVERPASS_DELAY_S ELSE REQUEST_DELAY

\* the backoff after a failed attempt, in tenths of a second
BackoffDelay == 20

\* what a mirror can answer: a JSON body, a body that is not JSON, a status
\* raise_for_status rejects, the four retryable statuses, no answer in time
OverpassResponses ==
    {"200 json", "200 not json", "400", "429", "502", "503", "504", "timeout"}

\* the attempt reaches 'return resp.json()'
Succeeds(resp) == resp = "200 json"

\* what 'return resp.json()' hands back
JsonOf(url, resp) == [url |-> url, body |-> resp]

\* the exception the attempt raises inside the try block
ErrorOf(url, resp) == [url |-> url, error |-> resp]

\* an error handler that keeps the first error
FirstErr(prev, e) == IF prev = None THEN Some(e) ELSE prev

\* except Exception as e: last_err = e
LastErr(prev, e) == Some(e)

SleepEvent(s) == [ev |-> "sleep", url |-> "", s |-> s, resp |-> ""]
PostEvent(url, resp) == [ev |-> "post", url |-> url, s |-> 0, resp |-> resp]

InitOverpass ==
    /\ Parked
    /\ bboxMem = [loaded |-> FALSE, map |-> EmptyMap]
    /\ bboxDisk = EmptyMap
    /\ hist = None
    /\ \E module \in OverpassModules :
          call = [fn |-> "_post_overpass", module |-> module, i |-> 1,
                  last_err |-> None, log |-> <<>>, outcome |-> "running",
                  result |-> None]

\* one pass of 'for url in OVERPASS_URLS': the delay, the request, and either
\* the return or the except block with its backoff
PostOverpassAttempt ==
    /\ call.outcome = "running"
    /\ call.i <= Len(OVERPASS_URLS)
    /\ \E resp \in OverpassResponses :
          call' =
            IF Succeeds(resp)
            THEN [call EXCEPT
                    !.log = @ \o << SleepEvent(RequestDelay(call.module)),
                                    PostEvent(OVERPASS_URLS[call.i], resp) >>,
                    !.outcome = "returned",
                    !.result = Some(JsonOf(OVERPASS_URLS[call.i], resp))]
            ELSE [call EXCEPT
                    !.log = @ \o << SleepEvent(RequestDelay(call.module)),
                                    PostEvent(OVERPASS_URLS[call.i], resp),
                                    SleepEvent(BackoffDelay) >>,
                    !.last_err = LastErr(@, ErrorOf(OVERPASS_URLS[call.i], resp)),
                    !.i = @ + 1]
    /\ UNCHANGED <<hist, bboxMem, bboxDisk, pipeline>>

\* after the loop: raise last_err, or the RuntimeError when there is none
PostOverpassRaise ==
    /\ call.outcome = "running"
    /\ call.i > Len(OVERPASS_URLS)
    /\ call' = [call EXCEPT
                  !.outcome = "raised",
                  !.result = IF call.last_err # None THEN call.last_err
                             ELSE Some(ErrorOf("", "RuntimeError"))]
    /\ UNCHANGED <<hist, bboxMem, bboxDisk, pipeline>>

NextOverpass == PostOverpassAttempt \/ PostOverpassRaise

SpecOverpass == InitOverpass /\ [][NextOverpass]_vars

\* the positions of the requests in the log of the call
PostsAt == {k \in 1..Len(call.log) : call.log[k].ev = "post"}

\* C19: each call of _post_overpass contacts the mirrors in their list order,
\* each at most once, with the inter-request delay before every attempt; it
\* returns the first successful response without contacting a later mirror,
\* and when every mirror fails it raises the error of the last mirror tried.
C19_MirrorOrder ==
    /\ \A k \in PostsAt :
          /\ call.log[k].url = OVERPASS_URLS[Cardinality({j \in PostsAt : j <= k})]
          /\ k > 1
          /\ call.log[k - 1] = SleepEvent(RequestDelay(call.module))
          /\ Succeeds(call.log[k].resp) =>
                /\ k = Len(call.log)
                /\ call.outcome = "returned"
    /\ Cardinality(PostsAt) <= Len(OVERPASS_URLS)
    /\ call.outcome = "returned" =>
          /\ PostsAt # {}
          /\ call.log[Len(call.log)].ev = "post"
          /\ call.result = Some(JsonOf(call.log[Len(call.log)].url, "200 json"))
    /\ call.outcome = "raised" =>
          /\ Cardinality(PostsAt) = Len(OVERPASS_URLS)
          /\ \A k \in PostsAt : ~Succeeds(call.log[k].resp)
          /\ \E k \in PostsAt :
                /\ call.log[k].url = OVERPASS_URLS[Len(OVERPASS_URLS)]
                /\ call.result = Some(ErrorOf(call.log[k].url, call.log[k].resp))

\* every mirror failed, each in another way, and the call raised
C19_Witness ==
    /\ call.outcome = "raised"
    /\ Len(call.log) = 9
    /\ call.log[2].resp = "429"
    /\ call.log[5].resp = "timeout"
    /\ call.log[8].resp = "503"


(***************************************************************************)
(* isochrones.py: build_graph_from_overpass and dijkstra_times             *)
(***************************************************************************)
\* Coordinates of this section are whole numbers of 1e-7 degree, relative to
\* the same corner; times are hundredths of a second.

\* round(x, 6) of a coordinate x >= 0 that is not half-way between two
\* multiples of 1e-6
Round6(x) == ((x + 5) \div 10) * 10

\* norm(lat, lng)
Norm(p) == <<Round6(p[1]), Round6(p[2])>>

\* _haversine_m of isochrones.py, in centimetres: 1e-7 degree of latitude is
\* 1.111 cm, of longitude 1.111 cm * cos(40.18 deg)
HaversineCm(a, b) ==
    ISqrt(((Abs(b[1] - a[1]) * 1111) \div 1000) * ((Abs(b[1] - a[1]) * 1111) \div 1000)
          + ((((Abs(b[2] - a[2]) * 1111) \div 1000) * CosLatE3) \div 1000)
            * ((((Abs(b[2] - a[2]) * 1111) \div 1000) * CosLatE3) \div 1000))

\* WALK_SPEED_MPS = 1.35, in cm/s
WALK_SPEED_MPS == 135

\* secs = dist / WALK_SPEED_MPS, in hundredths of a second
WalkSecs(a, b) == (HaversineCm(a, b) * 100) \div WALK_SPEED_MPS

\* adj.get(u, [])
AdjGet(adj, u) == IF u \in DOMAIN adj THEN adj[u] ELSE <<>>

\* adj[a].append((b, secs)) on the defaultdict
AdjAppend(adj, a, b, secs) == Put(adj, a, Append(AdjGet(adj, a), <<b, secs>>))

\* for a, b in zip(pts, pts[1:]): both directions of every segment a # b
RECURSIVE AddWay(_, _)
AddWay(pts, g) ==
    IF Len(pts) < 2 THEN g
    ELSE IF pts[1] = pts[2] THEN AddWay(Tail(pts), g)
    ELSE AddWay(Tail(pts),
                [adj |-> AdjAppend(AdjAppend(g.adj, pts[1], pts[2], WalkSecs(pts[1], pts[2])),
                                   pts[2], pts[1], WalkSecs(pts[1], pts[2])),
                 nodes |-> g.nodes \cup {pts[1], pts[2]}])

\* for e in data.get("elements", []): ways with two or more points only
RECURSIVE AddElements(_, _)
AddElements(elements, g) ==
    IF elements = <<>> THEN g
    ELSE IF Head(elements).type # "way" \/ Len(Head(elements).geometry) < 2
    THEN AddElements(Tail(elements), g)
    ELSE AddElements(Tail(elements),
                     AddWay([k \in 1..Len(Head(elements).geometry) |->
                                Norm(Head(elements).geometry[k])], g))

\* build_graph_from_overpass
BuildGraphFromOverpass(elements) ==
    AddElements(elements, [adj |-> EmptyMap, nodes |-> {}])

\* float("inf")
Infinity == 1000000000

\* dist.get(v, float("inf"))
DistGet(dist, v) == IF v \in DOMAIN dist THEN dist[v] ELSE Infinity

\* the order of the heap's (time, node) tuples
TupleLeq(e, o) ==
    \/ e[1] < o[1]
    \/ /\ e[1] = o[1]
       /\ \/ e[2][1] < o[2][1]
          \/ e[2][1] = o[2][1] /\ e[2][2] <= o[2][2]

\* heapq.heappop: the least tuple.  A tuple is pushed only when it lowers the
\* recorded time of its node, so the heap never holds a tuple twice.
HeapPop(pq) == CHOOSE e \in pq : \A o \in pq : TupleLeq(e, o)

\* a search that has no budget
BeyondBudgetNever(t, max_time_s) == FALSE

\* if t > max_time_s / if nt > max_time_s
BeyondBudget(t, max_time_s) == t > max_time_s

\* the body of 'for v, w in adj.get(u, [])' for one edge e = (v, w)
RelaxOne(e, t, max_time_s, st) ==
    IF BeyondBudget(t + e[2], max_time_s) THEN st
    ELSE IF t + e[2] < DistGet(st.dist, e[1])
    THEN [dist |-> Put(st.dist, e[1], t + e[2]),
          pq |-> st.pq \cup {<<t + e[2], e[1]>>},
          pushed |-> st.pushed \cup {<<t + e[2], e[1]>>}]
    ELSE st

RECURSIVE Relax(_, _, _, _)
Relax(edges, t, max_time_s, st) ==
    IF edges = <<>> THEN st
    ELSE Relax(Tail(edges), t, max_time_s, RelaxOne(Head(edges), t, max_time_s, st))

\* one pass of 'while pq' with e = (t, u) the popped tuple
DijkstraPass(c, e) ==
    IF e[1] # DistGet(c.dist, e[2]) \/ BeyondBudget(e[1], c.max_time_s)
    THEN [dist |-> c.dist, pq |-> c.pq \ {e}, pushed |-> c.pushed]
    ELSE Relax(AdjGet(c.adj, e[2]), e[1], c.max_time_s,
               [dist |-> c.dist, pq |-> c.pq \ {e}, pushed |-> c.pushed])

\* the four corners of a block, 111 m and 85 m apart
NodeSeq == << <<0, 0>>, <<10000, 0>>, <<10000, 10000>>, <<0, 10000>> >>

\* the pairs of corners that can be joined: the four sides and one diagonal
NodePairs == {p \in (1..Len(NodeSeq)) \X (1..Len(NodeSeq)) : p[1] < p[2]} \ {<<2, 4>>}

\* an edge is absent or takes 0, 1 or 3 seconds
EdgeChoices == {None, Some(0), Some(100), Some(300)}

EdgeWeight(f, i, j) ==
    IF <<i, j>> \in NodePairs THEN f[<<i, j>>]
    ELSE IF <<j, i>> \in NodePairs THEN f[<<j, i>>]
    ELSE None

\* the adjacency list of node i: its edges to the nodes j, j + 1, ...
RECURSIVE EdgesOf(_, _, _)
EdgesOf(f, i, j) ==
    IF j > Len(NodeSeq) THEN <<>>
    ELSE IF j = i \/ EdgeWeight(f, i, j) = None THEN EdgesOf(f, i, j + 1)
    ELSE << <<NodeSeq[j], EdgeWeight(f, i, j)[1]>> >> \o EdgesOf(f, i, j + 1)

\* the undirected graph of a choice of weights
WeightedAdj(f) ==
    [u \in {NodeSeq[i] : i \in 1..Len(NodeSeq)} |->
        EdgesOf(f, CHOOSE i \in 1..Len(NodeSeq) : NodeSeq[i] = u, 1)]

Way(geometry) == [type |-> "way", geometry |-> geometry]

\* answers of the road-data service: ways around the block, with a node
\* element, a way of one point, and a way whose points round to one node
OverpassWalkData ==
    { << Way(<< <<0, 0>>, <<10000, 0>>, <<10000, 10000>> >>),
         [type |-> "node", geometry |-> <<>>],
         Way(<< <<0, 0>>, <<0, 10000>> >>) >>,
      << Way(<< <<2, 1>>, <<9998, 3>> >>),
         Way(<< <<10000, 0>>, <<10001, 2>>, <<10000, 10000>>, <<0, 10000>>, <<0, 0>> >>),
         Way(<< <<0, 0>> >>) >>,
      << Way(<< <<0, 0>>, <<10000, 10000>> >>),
         Way(<< <<0, 0>>, <<10000, 0>> >>),
         Way(<< <<0, 0>>, <<10000, 0>> >>),
         Way(<< <<10000, 0>>, <<10000, 10000>> >>) >>,
      <<>> }

\* the arguments of the calls: every choice of weights on the block with a
\* budget of -1, 0, 2 or 4 seconds, and the built graphs with a budget of -1,
\* 90 or 200 seconds from a corner or from a point that is no node
DijkstraInputs ==
    { [adj |-> WeightedAdj(f), source |-> NodeSeq[1], max_time_s |-> m] :
         f \in [NodePairs -> EdgeChoices], m \in {0 - 100, 0, 200, 400} }
    \cup
    { [adj |-> BuildGraphFromOverpass(d).adj, source |-> s, max_time_s |-> m] :
         d \in OverpassWalkData, s \in {NodeSeq[1], <<5000, 5000>>},
         m \in {0 - 100, 9000, 20000} }

InitDijkstra ==
    /\ Parked
    /\ bboxMem = [loaded |-> FALSE, map |-> EmptyMap]
    /\ bboxDisk = EmptyMap
    /\ hist = None
    /\ \E arg \in DijkstraInputs :
          call = [fn |-> "dijkstra_times", adj |-> arg.adj, source |-> arg.source,
                  max_time_s |-> arg.max_time_s,
                  dist |-> Put(EmptyMap, arg.source, 0),
                  pq |-> {<<0, arg.source>>},
                  pushed |-> {<<0, arg.source>>},
                  done |-> FALSE]

\* one pass of the while loop
DijkstraStep ==
    /\ ~call.done
    /\ call.pq # {}
    /\ call' = [call EXCEPT
                  !.dist = DijkstraPass(call, HeapPop(call.pq)).dist,
                  !.pq = DijkstraPass(call, HeapPop(call.pq)).pq,
                  !.pushed = DijkstraPass(call, HeapPop(call.pq)).pushed]
    /\ UNCHANGED <<hist, bboxMem, bboxDisk, pipeline>>

\* return dist
DijkstraReturn ==
    /\ ~call.done
    /\ call.pq = {}
    /\ call' = [call EXCEPT !.done = TRUE]
    /\ UNCHANGED <<hist, bboxMem, bboxDisk, pipeline>>

NextDijkstra == DijkstraStep \/ DijkstraReturn

SpecDijkstra == InitDijkstra /\ [][NextDijkstra]_vars

\* the loop is the only thing the call does: it is never suspended for ever
SpecDijkstraFair == SpecDijkstra /\ WF_vars(NextDijkstra)

\* the nodes of the call: the source, the keys of adj and the edges' ends
GraphNodes ==
    {call.source} \cup DOMAIN call.adj
    \cup UNION {{call.adj[u][k][1] : k \in 1..Len(call.adj[u])} : u \in DOMAIN call.adj}

\* the least of a non-empty set of numbers
Least(S) == CHOOSE x \in S : \A y \in S : x <= y

\* one round of relaxing every edge of the call on the times D
RelaxAll(D) ==
    [v \in GraphNodes |->
        Least({D[v]} \cup
              UNION {{D[u] + call.adj[u][j][2] :
                         j \in {i \in 1..Len(call.adj[u]) : call.adj[u][i][1] = v}} :
                     u \in {x \in DOMAIN call.adj : D[x] < Infinity}})]

\* k rounds on D: the shortest times over paths of k edges more
RECURSIVE PathTimes(_, _)
PathTimes(D, k) == IF k = 0 THEN D ELSE PathTimes(RelaxAll(D), k - 1)

\* the true shortest travel time of every node from the source
ShortestTime ==
    PathTimes([v \in GraphNodes |-> IF v = call.source THEN 0 ELSE Infinity],
              Cardinality(GraphNodes))

\* all weights of the call are non-negative
NonNegative ==
    \A u \in DOMAIN call.adj : \A k \in 1..Len(call.adj[u]) : call.adj[u][k][2] >= 0

\* C20 as stated: dijkstra_times(adj, source, max) on a graph with
\* non-negative weights returns exactly the nodes whose true shortest time
\* from source is <= max, each mapped to that time; no node with time > max
\* is ever recorded or pushed on the queue; the search terminates.
C20_DijkstraCapped ==
    /\ [](NonNegative =>
            /\ \A e \in call.pushed : e[1] <= call.max_time_s
            /\ \A v \in DOMAIN call.dist : call.dist[v] <= call.max_time_s
            /\ call.done =>
                  /\ DOMAIN call.dist = {v \in GraphNodes : ShortestTime[v] <= call.max_time_s}
                  /\ \A v \in DOMAIN call.dist : call.dist[v] = ShortestTime[v])
    /\ <>(call.done)

\* C20, amended: the source is recorded and pushed with time 0 whatever max
\* is; besides it, dijkstra_times returns exactly the nodes whose true
\* shortest time is <= max, each mapped to that time, no other node with time
\* > max is ever recorded or pushed, and the search terminates.
C20_DijkstraCappedButSource ==
    /\ [](NonNegative =>
            /\ \A e \in call.pushed : e[1] <= call.max_time_s \/ e = <<0, call.source>>
            /\ \A v \in DOMAIN call.dist :
                  call.dist[v] <= call.max_time_s \/ (v = call.source /\ call.dist[v] = 0)
            /\ call.done =>
                  /\ DOMAIN call.dist =
                        {call.source} \cup
                        {v \in GraphNodes : ShortestTime[v] <= call.max_time_s}
                  /\ \A v \in DOMAIN call.dist : call.dist[v] = ShortestTime[v])
    /\ <>(call.done)

\* a finished search in which a node was pushed twice (the first tuple went
\* stale), and a node that can be reached lies beyond the budget
C20_Witness ==
    /\ call.done
    /\ call.max_time_s >= 0
    /\ \E e \in call.pushed : \E o \in call.pushed : e[2] = o[2] /\ e[1] < o[1]
    /\ \E v \in GraphNodes :
          ShortestTime[v] > call.max_time_s /\ ShortestTime[v] < Infinity
    /\ Cardinality(DOMAIN call.dist) >= 3


(***************************************************************************)
(* isochrones.py: maybe_write_isochrones and what it calls                 *)
(***************************************************************************)
\* the largest number of calls of maybe_write_isochrones
MaxIsoCalls == 2

\* dlat of _bbox_for_time: minutes * 60 * 1.35 * 1.2 metres, in 1e-7 degree
DLat(max_minutes) == (max_minutes * 60 * WALK_SPEED_MPS * 12 * 90) \div 1000

\* dlon of _bbox_for_time: dlat / cos(center_lat)
DLon(max_minutes) == (DLat(max_minutes) * 1000) \div CosLatE3

\* _bbox_for_time: (south, west, north, east)
BboxForTime(center, max_minutes) ==
    << center[1] - DLat(max_minutes), center[2] - DLon(max_minutes),
       center[1] + DLat(max_minutes), center[2] + DLon(max_minutes) >>

\* the ways the road-data service knows: a block at the origin with a way of
\* one point, and a street far to the north-east
WalkWorld ==
    << Way(<< <<0, 0>>, <<10000, 0>>, <<10000, 10000>> >>),
       Way(<< <<0, 0>>, <<0, 10000>>, <<10000, 10000>> >>),
       Way(<< <<10000, 10000>>, <<20000, 10000>> >>),
       Way(<< <<3, 4>> >>),
       Way(<< <<500000, 500000>>, <<510000, 500000>>, <<520000, 500000>> >>) >>

InBbox(p, box) == box[1] <= p[1] /\ p[1] <= box[3] /\ box[2] <= p[2] /\ p[2] <= box[4]

\* the answer of the service to the query of fetch_walk_network_overpass: the
\* ways with a point in the box
WalkService(center, max_minutes) ==
    SelectSeq(WalkWorld,
              LAMBDA e : \E k \in 1..Len(e.geometry) :
                            InBbox(e.geometry[k], BboxForTime(center, max_minutes)))

\* fetch_walk_network_overpass: the cached data when the cache file exists,
\* else the answer of the service, written to the cache; net = "fail" when
\* _post_overpass raises
FetchWalkNetworkOverpass(center, max_minutes, cache, net) ==
    IF cache # None
    THEN [raised |-> FALSE, data |-> cache[1], cache |-> cache, posts |-> 0]
    ELSE IF net = "fail"
    THEN [raised |-> TRUE, data |-> <<>>, cache |-> cache, posts |-> 1]
    ELSE [raised |-> FALSE, data |-> WalkService(center, max_minutes),
          cache |-> Some(WalkService(center, max_minutes)), posts |-> 1]

\* _haversine_m in whole metres, for points kilometres apart
HaversineM(a, b) ==
    ISqrt(((Abs(b[1] - a[1]) * 1111) \div 100000) * ((Abs(b[1] - a[1]) * 1111) \div 100000)
          + ((((Abs(b[2] - a[2]) * 1111) \div 100000) * CosLatE3) \div 1000)
            * ((((Abs(b[2] - a[2]) * 1111) \div 100000) * CosLatE3) \div 1000))

\* nearest_node: the first node of least distance in the set's iteration
\* order, which is any node of least distance
NearestNodes(nodes, p) ==
    {n \in nodes : \A o \in nodes : HaversineM(p, n) <= HaversineM(p, o)}

DijkstraNext(c, r) ==
    [adj |-> c.adj, max_time_s |-> c.max_time_s,
     dist |-> r.dist, pq |-> r.pq, pushed |-> r.pushed]

\* the while loop of dijkstra_times, run to its end
RECURSIVE DijkstraLoop(_)
DijkstraLoop(c) ==
    IF c.pq = {} THEN c.dist
    ELSE DijkstraLoop(DijkstraNext(c, DijkstraPass(c, HeapPop(c.pq))))

\* dijkstra_times
DijkstraTimes(adj, source, max_time_s) ==
    DijkstraLoop([adj |-> adj, max_time_s |-> max_time_s,
                  dist |-> Put(EmptyMap, source, 0),
                  pq |-> {<<0, source>>}, pushed |-> {<<0, source>>}])

\* the nodes a polygon is drawn around: t <= budget_s
PointsWithin(times, budget_s) == {n \in DOMAIN times : times[n] <= budget_s * 100}

\* polygon_for_budget: the hull is held as the set of its points; no geometry
\* for fewer than three points
PolygonForBudget(times, budget_s) ==
    [value |-> budget_s,
     geometry |-> IF Cardinality(PointsWithin(times, budget_s)) < 3 THEN None
                  ELSE Some(PointsWithin(times, budget_s))]

\* sorted(S)
RECURSIVE Sorted(_)
Sorted(S) == IF S = {} THEN <<>> ELSE <<Least(S)>> \o Sorted(S \ {Least(S)})

\* minutes_list = sorted({int(m) for m in minutes})
MinutesList(minutes) == Sorted({minutes[k] : k \in 1..Len(minutes)})

\* max_minutes = max(minutes_list)
MaxMinutes(minutes_list) == minutes_list[Len(minutes_list)]

\* a budget left in minutes
BudgetMinutes(m) == m

\* budget_s = m * 60
BudgetS(m) == m * 60

\* the features of the collection, from the times of one search
Features(times, minutes_list) ==
    [k \in 1..Len(minutes_list) |-> PolygonForBudget(times, BudgetS(minutes_list[k]))]

\* generate_walk_isochrones_geojson_overpass once the data is at hand, with
\* src the node nearest_node returned: one search, capped at the largest budget
GenerateFrom(g, src, minutes_list, fetched) ==
    [raised |-> FALSE, cache |-> fetched.cache, posts |-> fetched.posts,
     data |-> fetched.data, src |-> Some(src),
     searches |-> << BudgetS(MaxMinutes(minutes_list)) >>,
     features |-> Features(DijkstraTimes(g.adj, src,
                               BudgetS(MaxMinutes(minutes_list)) * 100),
                           minutes_list)]

\* what the function leaves behind when it raises
GenerateRaised(fetched) ==
    [raised |-> TRUE, cache |-> fetched.cache, posts |-> fetched.posts,
     data |-> fetched.data, src |-> None, searches |-> <<>>, features |-> <<>>]

\* the results generate_walk_isochrones_geojson_overpass can have: it raises
\* when the fetch raises and when the network has no node
GenerateWith(center, minutes_list, fetched, g) ==
    IF fetched.raised \/ g.nodes = {} THEN {GenerateRaised(fetched)}
    ELSE {GenerateFrom(g, src, minutes_list, fetched) : src \in NearestNodes(g.nodes, center)}

GenerateAfterFetch(center, minutes_list, fetched) ==
    GenerateWith(center, minutes_list, fetched, BuildGraphFromOverpass(fetched.data))

GenerateWalkIsochronesGeojsonOverpass(center, minutes, cache, net) ==
    GenerateAfterFetch(center, MinutesList(minutes),
        FetchWalkNetworkOverpass(center, MaxMinutes(MinutesList(minutes)), cache, net))

\* the values os.environ.get("ORS_API_KEY") can have: unset or empty, blank,
\* a key
OrsKeys == {"", " ", "key"}

\* the centers of the calls (eu_coords of two runs) and the budgets asked for
IsoCenters == {<<1000, 1000>>, <<509000, 500500>>}
IsoMinutes == {<<15, 30>>, <<2, 1>>, <<1, 3, 1>>}

\* the answer of the isochrone service, when it answers
OrsGeojson(center, minutes) == [service |-> "ors", center |-> center, minutes |-> minutes]

\* the collection written when the walk network is used
FeatureCollection(r) == [service |-> "overpass", features |-> r.features]

InitIso ==
    /\ Parked
    /\ bboxMem = [loaded |-> FALSE, map |-> EmptyMap]
    /\ bboxDisk = EmptyMap
    /\ hist = None
    /\ \E out \in {None, Some("committed")} :
          call = [fn |-> "maybe_write_isochrones", n |-> 0, out |-> out,
                  cache |-> None, cached_for |-> None, args |-> None,
                  outcome |-> "", gen |-> None, old |-> out, posts |-> 0]

\* maybe_write_isochrones returns False at once
IsoSkipped(c, a) ==
    [c EXCEPT !.n = @ + 1, !.args = Some(a), !.outcome = "False", !.gen = None,
              !.old = c.out, !.posts = 0]

\* the isochrone service is asked; net = "fail" when its call raises
IsoOrs(c, a) ==
    [c EXCEPT !.n = @ + 1, !.args = Some(a), !.gen = None, !.old = c.out, !.posts = 1,
              !.outcome = IF a.net = "fail" THEN "raised" ELSE "True",
              !.out = IF a.net = "fail" THEN c.out
                      ELSE Some(OrsGeojson(a.center, a.minutes))]

\* the walk network is used, r the result of the generation
IsoOverpass(c, a, r) ==
    [c EXCEPT !.n = @ + 1, !.args = Some(a), !.gen = Some(r), !.old = c.out,
              !.posts = r.posts,
              !.cache = r.cache,
              !.cached_for = IF r.posts = 1 /\ ~r.raised
                             THEN Some(<<a.center, MaxMinutes(MinutesList(a.minutes))>>)
                             ELSE c.cached_for,
              !.outcome = IF r.raised THEN "raised" ELSE "True",
              !.out = IF r.raised THEN c.out ELSE Some(FeatureCollection(r))]

\* maybe_write_isochrones(center, out_path, minutes, force) in an environment
\* with ORS_API_KEY = key
MaybeWriteIsochrones(c, a) ==
    IF c.out # None /\ ~a.force /\ a.key = "" THEN {IsoSkipped(c, a)}
    ELSE IF Strip(a.key) # "" THEN {IsoOrs(c, a)}
    ELSE {IsoOverpass(c, a, r) :
             r \in GenerateWalkIsochronesGeojsonOverpass(a.center, a.minutes, c.cache, a.net)}

MaybeWriteIsochronesCall ==
    /\ call.n < MaxIsoCalls
    /\ \E center \in IsoCenters, minutes \in IsoMinutes, force \in BOOLEAN,
          key \in OrsKeys, net \in {"ok", "fail"} :
          call' \in MaybeWriteIsochrones(call,
                      [center |-> center, minutes |-> minutes, force |-> force,
                       key |-> key, net |-> net])
    /\ UNCHANGED <<hist, bboxMem, bboxDisk, pipeline>>

NextIso == MaybeWriteIsochronesCall

SpecIso == InitIso /\ [][NextIso]_vars


\* the minutes asked for by the last call
AskedMinutes == {call.args[1].minutes[k] : k \in 1..Len(call.args[1].minutes)}

\* the last call went through generate_walk_isochrones_geojson_overpass and
\* got a collection back
Generated == call.gen # None /\ ~call.gen[1].raised

\* C21: generate_walk_isochrones_geojson_overpass returns a FeatureCollection
\* with exactly one feature per requested time budget, each tagged
\* properties.value = 60 * minutes of its budget, computed from a single
\* shortest-path search capped at 60 * the largest requested budget.
C21_OneFeaturePerBudget ==
    Generated =>
        /\ Len(call.gen[1].features) = Cardinality(AskedMinutes)
        /\ \A m \in AskedMinutes :
              Cardinality({k \in 1..Len(call.gen[1].features) :
                              call.gen[1].features[k].value = 60 * m}) = 1
        /\ \A k \in 1..Len(call.gen[1].features) :
              \E m \in AskedMinutes :
                 /\ call.gen[1].features[k].value = 60 * m
                 /\ call.gen[1].features[k].geometry # None =>
                       \A n \in call.gen[1].features[k].geometry[1] :
                          n \in BuildGraphFromOverpass(call.gen[1].data).nodes
        /\ Len(call.gen[1].searches) = 1
        /\ \A m \in AskedMinutes : call.gen[1].searches[1] >= 60 * m
        /\ \E m \in AskedMinutes : call.gen[1].searches[1] = 60 * m
        /\ call.out = Some(FeatureCollection(call.gen[1]))

\* budgets 15 and 30: two polygons tagged 900 and 1800 from one search capped
\* at 1800
C21_Witness ==
    /\ Generated
    /\ call.args[1].minutes = <<15, 30>>
    /\ Len(call.gen[1].features) = 2
    /\ call.gen[1].features[1].value = 900
    /\ call.gen[1].features[2].value = 1800
    /\ call.gen[1].features[1].geometry # None
    /\ call.gen[1].searches = <<1800>>


\* C22 (the isochrone step of main): a transient failure of the road-data or
\* isochrone service during main's call maybe_write_isochrones(minutes =
\* (15, 30), force = True) never ends the run with an error.
C22_TransientNeverFatal ==
    (/\ call.args # None
     /\ call.args[1].force
     /\ call.args[1].minutes = <<15, 30>>
     /\ call.args[1].net = "fail")
    => call.outcome # "raised"


\* C24: the walk-network data fetch_walk_network_overpass returns for a
\* request is the data of that request's own query region; a cached response
\* is reused only for a request with the same center and maximum budget.
C24_CacheKeyedByRegion ==
    call.gen # None /\ ~call.gen[1].raised =>
        /\ call.gen[1].data =
              WalkService(call.args[1].center, MaxMinutes(MinutesList(call.args[1].minutes)))
        /\ call.gen[1].posts = 0 =>
              call.cached_for =
                 Some(<<call.args[1].center, MaxMinutes(MinutesList(call.args[1].minutes))>>)

\* C25: maybe_write_isochrones called with force = False when out_path exists
\* does nothing: no network call, the file unchanged, False returned,
\* whatever the environment holds.
C25_ExistingFileKept ==
    (call.args # None /\ ~call.args[1].force /\ call.old # None) =>
        /\ call.outcome = "False"
        /\ call.posts = 0
        /\ call.out = call.old


(***************************************************************************)
(* geocode.py: the calls of the geocoding service, answer by answer        *)
(***************************************************************************)
\* the largest number of calls in a row
MaxNominatimCalls == 2

\* answers that give _nominatim_search nothing: the request raised, the
\* status was an error, the body was not JSON, the JSON was not a list, the
\* list was empty
NoListAnswers ==
    {"timeout", "connection error", "http 503", "not json", "json object", "empty list"}

\* the first element of a non-empty list: an object or not, its lat/lon and
\* its boundingbox well-formed, missing or malformed
FirstItems ==
    [isdict : {TRUE}, latlon : {"ok", "missing", "bad"},
     boundingbox : {"ok", "missing", "short", "bad"}]
    \cup {[isdict |-> FALSE, latlon |-> "missing", boundingbox |-> "missing"]}

\* what the service can answer to one request
RawAnswers ==
    {[list |-> FALSE, why |-> w, item |-> [isdict |-> FALSE, latlon |-> "missing",
                                           boundingbox |-> "missing"]] : w \in NoListAnswers}
    \cup {[list |-> TRUE, why |-> "", item |-> it] : it \in FirstItems}

\* _nominatim_search: the list of results, [] for every failure
NominatimSearch(raw) == IF raw.list THEN <<raw.item>> ELSE <<>>

\* geocode_address: float(results[0]["lat"]), float(results[0]["lon"]) inside
\* a try block; the outcome is a result or None, never an exception
GeocodeAddressRaw(raw) ==
    IF NominatimSearch(raw) = <<>> THEN [raised |-> FALSE, result |-> None]
    ELSE IF NominatimSearch(raw)[1].isdict /\ NominatimSearch(raw)[1].latlon = "ok"
    THEN [raised |-> FALSE, result |-> Some(PIn)]
    ELSE [raised |-> FALSE, result |-> None]

\* _fetch_district_bbox: results[0].get("boundingbox") is outside the try
\* block and raises AttributeError on an element that is no object
FetchDistrictBboxRaw(osm, raw) ==
    IF NominatimSearch(raw) = <<>> THEN [raised |-> FALSE, result |-> None]
    ELSE IF ~NominatimSearch(raw)[1].isdict THEN [raised |-> TRUE, result |-> None]
    ELSE IF NominatimSearch(raw)[1].boundingbox = "ok"
    THEN [raised |-> FALSE, result |-> ServiceBBox(osm)]
    ELSE [raised |-> FALSE, result |-> None]

\* the start of geocode_listing for a listing without override, with nothing
\* cached: district_bbox = get_district_bbox(osm_district) if osm_district
\* else None, with no handler around it
ListingBoxRaw(district, raw) ==
    IF Strip(DISTRICT_ALIASES(district)) = "" THEN [raised |-> FALSE, result |-> None]
    ELSE FetchDistrictBboxRaw(Strip(DISTRICT_ALIASES(district)), raw)

InitNominatim ==
    /\ Parked
    /\ bboxMem = [loaded |-> FALSE, map |-> EmptyMap]
    /\ bboxDisk = EmptyMap
    /\ hist = None
    /\ call = [fn |-> "", n |-> 0, raw |-> None, raised |-> FALSE, result |-> None]

GeocodeAddressCall ==
    /\ call.n < MaxNominatimCalls
    /\ \E raw \in RawAnswers :
          call' = [fn |-> "geocode_address", n |-> call.n + 1, raw |-> Some(raw),
                   raised |-> GeocodeAddressRaw(raw).raised,
                   result |-> GeocodeAddressRaw(raw).result]
    /\ UNCHANGED <<hist, bboxMem, bboxDisk, pipeline>>

FetchDistrictBboxCall ==
    /\ call.n < MaxNominatimCalls
    /\ \E raw \in RawAnswers :
          call' = [fn |-> "_fetch_district_bbox", n |-> call.n + 1, raw |-> Some(raw),
                   raised |-> FetchDistrictBboxRaw("Kentron", raw).raised,
                   result |-> FetchDistrictBboxRaw("Kentron", raw).result]
    /\ UNCHANGED <<hist, bboxMem, bboxDisk, pipeline>>

GeocodeListingCall ==
    /\ call.n < MaxNominatimCalls
    /\ \E raw \in RawAnswers, district \in {"Center", ""} :
          call' = [fn |-> "geocode_listing", n |-> call.n + 1, raw |-> Some(raw),
                   raised |-> ListingBoxRaw(district, raw).raised,
                   result |-> ListingBoxRaw(district, raw).result]
    /\ UNCHANGED <<hist, bboxMem, bboxDisk, pipeline>>

NextNominatim == GeocodeAddressCall \/ FetchDistrictBboxCall \/ GeocodeListingCall

SpecNominatim == InitNominatim /\ [][NextNominatim]_vars

\* C23: any failure of a geocoding-service call made while resolving a
\* listing (network error, timeout, non-list or otherwise malformed response,
\* including the district bounding-box lookup) is caught and treated as 'no
\* result' for that step: nothing is raised.
C23_FailuresCaught ==
    call.raw # None =>
        /\ ~call.raised
        /\ (~call.raw[1].list \/ ~call.raw[1].item.isdict) => call.result = None


(***************************************************************************)
(* the pipeline again: the shape of the records                            *)
(***************************************************************************)
\* a record with coordinates and a tag other than 'failed', or without
\* coordinates and tagged 'failed'
Populated(l) ==
    \/ l.lat # None /\ l.lng # None /\ l.prec \notin {"failed", ""}
    \/ l.lat = None /\ l.lng = None /\ l.prec = "failed"

\* C26: after run_geocoder, and after any later reset, run_geocoder and
\* run_spread over one or more runs, every listing has either non-null lat and
\* lng with a precision other than 'failed', or null lat and lng with
\* precision 'failed' (or unset right after a reset); null coordinates never
\* carry 'override' or another success tag.
C26_PopulatedOrFailed ==
    /\ pc \in {"spread", "persist"} => \A i \in Idx : Populated(listings[i])
    /\ (pc = "geocode" /\ runs >= 1) =>
          \A i \in Idx : Populated(listings[i]) \/ listings[i] = Rec(None, None, "")


(***************************************************************************)
(* run_spread called on its own: what it leaves alone                      *)
(***************************************************************************)
\* i entered the last call in a street-label group of two or more
InStreetGroup(i) ==
    /\ InByStreet(before, i)
    /\ Len(Members(before, site[i].street)) >= 2

\* i entered the last call in a district stack of two or more
InStack(i) == \E j \in DOMAIN before : Stacked(i, j)

\* C27: run_spread changes lat, lng or precision only for members of a
\* street-label group of two or more listings with precision street,
\* street_jitter or street_spread and for members of a group of two or more
\* 'district' listings with identical coordinates; every other listing is left
\* unchanged, and no listing is moved more than once per call (no listing is
\* in both kinds of group, and a stack member ends one jitter away from the
\* coordinate it came with).
C27_SpreadFrame ==
    call.n >= 1 =>
        \A i \in DOMAIN before :
            /\ listings[i] # before[i] => (InStreetGroup(i) \/ InStack(i))
            /\ ~(InStreetGroup(i) /\ InStack(i))
            /\ InStack(i) =>
                  Pos(listings[i]) = DeterministicJitter(Pos(before[i]), site[i].id, 400)
            /\ InStreetGroup(i) =>
                  listings[i].prec \in {"street", "street_jitter", "street_spread",
                                        "district_jitter"}

\* a call that moved a street group of two and left alone an 'address'
\* listing on the same street
C27_Witness ==
    /\ call.n = 1
    /\ \E i \in DOMAIN before, j \in DOMAIN before, k \in DOMAIN before :
          /\ i # j /\ site[i].street = site[k].street
          /\ InStreetGroup(i) /\ InStreetGroup(j)
          /\ listings[i] # before[i] /\ listings[j] # before[j]
          /\ before[k].prec = "address" /\ listings[k] = before[k]


MaxFetchCalls == 3

\* street names fetch_street_geometry is called with
FetchNames ==
    { <<"Tolstoy", "Street">>, <<"tolstoy", "street">>, <<"Tolstoy-Street">>,
      <<"Abovyan", "St.">>, <<"Abovyan", "Street">>, <<"Unknown", "Lane">> }

\* data/raw is empty; hist maps each cache file to the normalized name whose
\* response was written to it
InitFetch ==
    /\ Parked
    /\ bboxMem = [loaded |-> FALSE, map |-> EmptyMap]
    /\ bboxDisk = EmptyMap
    /\ hist = EmptyMap
    /\ call = [fn |-> "fetch_street_geometry", n |-> 0, street |-> <<>>,
               hit |-> FALSE, geom |-> None]

\* the cache file a call for this normalized name writes, when it writes one
Written(files, normalized, cache, ok) ==
    IF Slug(normalized) \notin DOMAIN cache /\ ok
    THEN Put(files, Slug(normalized), normalized) ELSE files

\* one call of fetch_street_geometry; ok = some Overpass mirror answered
FetchStreetGeometryCall ==
    /\ call.n < MaxFetchCalls
    /\ \E street \in FetchNames, ok \in BOOLEAN :
          /\ geomCache' = FetchStreetGeometry(street, PIn, geomCache, ok).cache
          /\ hist' = Written(hist, NormalizeStreetForQuery(street), geomCache, ok)
          /\ call' = [fn |-> "fetch_street_geometry", n |-> call.n + 1,
                      street |-> street,
                      hit |-> Slug(NormalizeStreetForQuery(street)) \in DOMAIN geomCache,
                      geom |-> FetchStreetGeometry(street, PIn, geomCache, ok).geom]
    /\ UNCHANGED <<site, listings, saved, overridesFile, overrides, bboxMem, bboxDisk,
                   pc, toGeocode, cur, vbox, failed, log, before, runs, edits>>

NextFetch == FetchStreetGeometryCall

SpecFetch == InitFetch /\ [][NextFetch]_vars

\* C29: the geometry fetch_street_geometry reads from its on-disk cache for a
\* street is the response that was fetched for that same normalized street
\* name; two different normalized names never share a cache file.
C29_CacheFilePerName ==
    (call.fn = "fetch_street_geometry" /\ call.hit) =>
        hist[Slug(NormalizeStreetForQuery(call.street))]
            = NormalizeStreetForQuery(call.street)

(***************************************************************************)
(* main.py: the carry-forward step on its own                              *)
(***************************************************************************)
\* what the sites list at the start of a run: two listings without embedded
\* coordinates; the three sites number their listings independently
CarrySites ==
    { << Prof(7, "besthouse", Tolstoy, "Kentron", "", None),
         Prof(7, "kentron", Tolstoy, "Center", "", None) >>,
      << Prof(7, "besthouse", Tolstoy, "Kentron", "", None),
         Prof(8, "kentron", Tolstoy, "Center", "", None) >>,
      << Prof(7, "kentron", Tolstoy, "Center", "", None),
         Prof(8, "listam", Tolstoy, "Kentron", "", None) >> }

\* geo fields the previous run can have persisted for such a listing
PrevOutcomes ==
    { Rec(Some(PIn[1]), Some(PIn[2]), "street"),
      Rec(Some(PCorner[1]), Some(PCorner[2]), "street"),
      Rec(Some(PCorner[1]), Some(PCorner[2]), "street_spread"),
      Rec(Some(PFar[1]), Some(PFar[2]), "district_jitter"),
      Rec(None, None, "failed") }

\* the item of data/listings.json for listing p with geo fields r
SavedItem(p, r) ==
    [id |-> p.id, source |-> p.source, lat |-> r.lat, lng |-> r.lng, prec |-> r.prec]

\* main has loaded the file of the previous run, which saw the same listings,
\* and has concatenated what the scrapers returned
InitCarry ==
    /\ site \in CarrySites
    /\ listings = [i \in DOMAIN site |-> Scraped(site[i])]
    /\ \E geo \in [DOMAIN site -> PrevOutcomes] :
          saved = [i \in DOMAIN site |-> SavedItem(site[i], geo[i])]
    /\ before = listings
    /\ call = [fn |-> "main", n |-> 0]
    /\ hist = None
    /\ overridesFile = EmptyMap
    /\ overrides = EmptyMap
    /\ bboxMem = [loaded |-> FALSE, map |-> EmptyMap]
    /\ bboxDisk = EmptyMap
    /\ geomCache = EmptyMap
    /\ pc = "carry"
    /\ toGeocode = <<>>
    /\ cur = 0
    /\ vbox = None
    /\ failed = <<>>
    /\ log = <<>>
    /\ runs = 1
    /\ edits = 0

NextCarry == CarryForward

SpecCarry == InitCarry /\ [][NextCarry]_vars

\* C30: the carry-forward step of main copies coordinates and precision from
\* the previous run's record only together and only from the record of the
\* same listing: after it no listing holds carried-forward coordinates with
\* precision 'failed', and no listing holds coordinates or precision taken
\* from a listing of a different source that has the same integer id.
C30_CarrySameListing ==
    [][pc = "carry" =>
          \A i \in DOMAIN listings :
              /\ ~(/\ listings[i].lat = None
                    /\ listings'[i].lat # None
                    /\ listings'[i].prec = "failed")
              /\ listings'[i] # listings[i] =>
                    PrevById(saved, site[i].id)[1].source = site[i].source]_vars

====
